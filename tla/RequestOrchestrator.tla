------------------------ MODULE RequestOrchestrator ------------------------
(***************************************************************************)
(* V8RequestOrchestrator (src/probekv/v8_orchestration.py:236) over a      *)
(* shared lease manager: one call freezes the winners of a request, plans, *)
(* and leases the Replicas of the plan; another gives everything back.     *)
(* Between the selection of a winner and the call, and between the calls   *)
(* of one request and another, Replicas are evicted and placed again.      *)
(*                                                                         *)
(* The planner of schema 5 is in JointPlanners; here it may return any     *)
(* plan within the HBM contract that keeps what is already prefetched, or  *)
(* raise because that alone is beyond it.  No time passes: the orphan      *)
(* sweep of the manager is in Leases.                                      *)
(*                                                                         *)
(* Bounds: MaxGrants grants, MaxPlaced placements after the first ones.    *)
(***************************************************************************)
EXTENDS LeaseOps, SequencesExt

CONSTANTS
    SegmentsOf,         \* the reusable segments of each request
    MatchesOf,          \* the Replicas of the Sources that match a segment
    RankOfSegment,      \* the order of the segment ids, a number for each
    HbmCap,             \* hbm_capacity_bytes
    MaxGrants, MaxPlaced

ASSUME OrchestratedRequests ==
    /\ SegmentsOf \in [Owners -> SUBSET Segments]
    /\ \A o \in Owners : IsFiniteSet(SegmentsOf[o])
    /\ RankOfSegment \in [Segments -> Int]
    /\ \A g, h \in Segments : RankOfSegment[g] = RankOfSegment[h] => g = h

VARIABLES
    pool,       \* the lease manager
    option,     \* of each request, the options of its locked segments
    loop        \* of each request, its V8ClosedLoopState

orchestratorVars == <<pool, option, loop>>

Idle == [stage |-> "none", logical |-> {}, physical |-> {}]
(* What remains when the planner raises: leases and no state.              *)
Abandoned(L) == [Idle EXCEPT !.stage = "abandoned", !.logical = L]
Running(L, P) == [stage |-> "running", logical |-> L, physical |-> P]

(* The pool holds the Replicas that match some segment.                    *)
Matched == {r \in Replicas : \E g \in Segments : r \in MatchesOf[g]}

OrchestratorInit ==
    /\ pool = [EmptyManager EXCEPT
                 !.source = [s \in Sources |-> "active"],
                 !.life = [r \in Replicas |-> IF r \in Matched THEN "ready" ELSE "absent"],
                 !.backing = [r \in Replicas |-> r \in Matched /\ TierOf[r] = "cpu"],
                 !.placement = [r \in Replicas |-> IF r \in Matched THEN 1 ELSE 0]]
    /\ option = [o \in Owners |-> <<>>]
    /\ loop = [o \in Owners |-> Idle]

Locked(o) == DOMAIN option[o]
Preceding(S, g) == {h \in S : RankOfSegment[h] < RankOfSegment[g]}
(* sorted(): the place of a segment is the number of those before it.      *)
InOrder(S) ==
    [i \in 1..Cardinality(S) |-> CHOOSE g \in S : Cardinality(Preceding(S, g)) = i - 1]

(* The selectors of a request have locked Sources for the segments of w;   *)
(* an option names a Replica as it is placed now.  A Replica may be on the *)
(* GPU because the request prefetched it already.                          *)
LockWinners(o, w, F) ==
    /\ loop[o].stage = "none" /\ Locked(o) = {}
    /\ \A g \in DOMAIN w : w[g] \in MatchesOf[g] /\ pool.life[w[g]] = "ready"
    /\ \A g \in F : TierOf[w[g]] = "gpu"
    /\ option' = [option EXCEPT ![o] =
         [g \in DOMAIN w |-> [replica |-> w[g], placement |-> pool.placement[w[g]],
                              forced |-> g \in F]]]
    /\ UNCHANGED <<pool, loop>>

WinnerOf(o, g) == SourceOf[option[o][g].replica]
Bytes(o, G) == MapThenSumSet(LAMBDA g : SizeOf[option[o][g].replica], G)
Forced(o) == {g \in Locked(o) : option[o][g].forced}

(***************************************************************************)
(* freeze_and_predict.                                                     *)
(***************************************************************************)
Freezable(o, g) == CanFreeze(pool, o, g, WinnerOf(o, g))
(* The segments frozen before the first that raises.                       *)
Granted(o) ==
    {g \in Locked(o) : \A h \in Locked(o) :
        RankOfSegment[h] <= RankOfSegment[g] => Freezable(o, h)}

FrozenAll(o, G) ==
    FoldLeft(LAMBDA m, g : FreezeAndAcquireLogical(m, o, g, WinnerOf(o, g), 0, 0),
             pool, InOrder(G))
NewIn(m) == (Len(pool.lease) + 1)..Len(m.lease)

BatchOf(o, P) ==
    [i \in 1..Cardinality(P) |->
        LET g == InOrder(P)[i]
        IN  [segment |-> g, source |-> WinnerOf(o, g), replica |-> option[o][g].replica,
             placement |-> option[o][g].placement, purpose |-> "execution"]]

(* Mutant: the second handler forgets to give the logical leases back.     *)
RolledBackNot(m) == m

(* The logical leases are released; the frozen winners stay.               *)
RolledBack(m) == ReleaseAll(m, NewIn(m), "request")

Raises(o, m, abandoned) ==
    /\ pool' = m
    /\ loop' = [loop EXCEPT ![o] = abandoned]
    /\ option' = [option EXCEPT ![o] = <<>>]

FreezeRaises(o) ==
    /\ Granted(o) # Locked(o)
    /\ Raises(o, ReleaseAll(FrozenAll(o, Granted(o)),
                            NewIn(FrozenAll(o, Granted(o))), "request"), Idle)

(* The planner is called outside both try blocks.                          *)
PlannerRaises(o) ==
    /\ Granted(o) = Locked(o)
    /\ Bytes(o, Forced(o)) > HbmCap
    /\ LET m == FrozenAll(o, Locked(o)) IN Raises(o, m, Abandoned(NewIn(m)))

PlanLegal(o, P) == Forced(o) \subseteq P /\ P \subseteq Locked(o) /\ Bytes(o, P) <= HbmCap

LeaseRaises(o, P) ==
    LET m == FrozenAll(o, Locked(o))
    IN  /\ Granted(o) = Locked(o) /\ PlanLegal(o, P)
        /\ P # {} /\ ~CanLeaseBatch(m, o, BatchOf(o, P), HbmCap)
        /\ Raises(o, RolledBack(m), Idle)

FreezeAndPredict(o, P) ==
    LET m == FrozenAll(o, Locked(o))
        leased == IF P = {} THEN m ELSE LeaseBatch(m, o, BatchOf(o, P), 0, 0)
    IN  /\ Granted(o) = Locked(o) /\ PlanLegal(o, P)
        /\ P = {} \/ CanLeaseBatch(m, o, BatchOf(o, P), HbmCap)
        /\ pool' = leased
        /\ loop' = [loop EXCEPT ![o] = Running(NewIn(m), NewIn(leased) \ NewIn(m))]
        /\ UNCHANGED option

(* release_request, also when called again.                                *)
ReleaseRequest(o) ==
    /\ loop[o].stage \in {"running", "released"}
    /\ pool' = ReleaseAll(pool, loop[o].physical \cup loop[o].logical, "request")
    /\ loop' = [loop EXCEPT ![o].stage = "released"]
    /\ option' = [option EXCEPT ![o] = <<>>]

CallReturns(o) ==
    /\ loop[o].stage = "none" /\ Locked(o) # {}
    /\ Len(pool.lease) + 2 * Cardinality(Locked(o)) <= MaxGrants
    /\ \/ FreezeRaises(o) \/ PlannerRaises(o)
       \/ \E P \in SUBSET Locked(o) : LeaseRaises(o, P) \/ FreezeAndPredict(o, P)

(***************************************************************************)
(* The pool around the requests.                                           *)
(***************************************************************************)
PlaceAgain(r) ==
    /\ SumFunction(pool.placement) < Cardinality(Matched) + MaxPlaced /\ ~Present(pool, r)
    /\ CanRegisterReplica(pool, r, TierOf[r] = "cpu")
    /\ pool' = RegisterReplica(pool, r, TierOf[r] = "cpu", "ready")
    /\ UNCHANGED <<option, loop>>

Displace(r) ==
    /\ Present(pool, r) /\ CanEvictReplica(pool, r)
    /\ pool' = EvictReplica(pool, r)
    /\ UNCHANGED <<option, loop>>

OrchestratorNext ==
    \/ \E o \in Owners :
         \/ \E G \in (SUBSET SegmentsOf[o]) \ {{}} : \E w \in [G -> Matched], F \in SUBSET G :
              LockWinners(o, w, F)
         \/ CallReturns(o)
         \/ ReleaseRequest(o)
    \/ \E r \in Matched : PlaceAgain(r) \/ Displace(r)

OrchestratorSpec == OrchestratorInit /\ [][OrchestratorNext]_orchestratorVars

-----------------------------------------------------------------------------
(* "Bind selector output to leases, two planners and final monotonic       *)
(* admission" (v8_orchestration.py:237).  However calls fail, and whatever *)
(* is evicted and placed again in between, a request holds exactly the     *)
(* leases its state names, on the Sources it locked and on Replicas that   *)
(* are still placed as when it chose them.  A call that fails to freeze or *)
(* to lease leaves none; one whose planner raised leaves the leases it had *)
(* taken, which hold Sources only and no Replica.                          *)
ClosedLoopHolds ==
    \A o \in Owners :
      /\ {l \in Live(pool) : pool.lease[l].owner = o}
           = IF loop[o].stage \in {"running", "abandoned"}
             THEN loop[o].logical \cup loop[o].physical ELSE {}
      /\ loop[o].stage \in {"running", "abandoned"} =>
           \A l \in loop[o].logical : pool.lease[l].replica = NoReplica
      /\ loop[o].stage = "abandoned" => loop[o].physical = {}
      /\ loop[o].stage = "running" =>
           /\ {pool.lease[l].segment : l \in loop[o].logical} = Locked(o)
           /\ \A l \in loop[o].logical \cup loop[o].physical :
                pool.lease[l].source = WinnerOf(o, pool.lease[l].segment)
           /\ \A l \in loop[o].physical :
                LET g == pool.lease[l].segment
                IN  /\ pool.life[pool.lease[l].replica] = "ready"
                    /\ pool.placement[pool.lease[l].replica] = option[o][g].placement
=============================================================================
