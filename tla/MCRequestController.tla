------------------------ MODULE MCRequestController ------------------------
(* What a request of one generation of the runtime or another decides, in  *)
(* one run; each behaviour exercises one part:                             *)
(*   requests       two requests of RequestController that meet on a       *)
(*                  Replica and on the HBM                                 *)
(*   commit, selector, budget, planner   what is inside one such request   *)
(*   global         the Source pool of v6                                  *)
EXTENDS RequestController, ResidualSelector, CommitController,
        JointPlanners, GlobalPool, TLC

CONSTANTS Parts, o1, o2, g1, s1, r1, pa, pb, pc, pd, ma, mb, dram, ssd

VARIABLE part

-----------------------------------------------------------------------------
OneSourceOf == r1 :> s1
OneTierOf   == r1 :> "cpu"
OneSizeOf   == r1 :> 2
OneNamespaceOf == s1 :> "n1"
FirstThenRest == [g \in Segments |-> IF g = g1 THEN 1 ELSE 2]
StaggeredPolicy == [o \in Owners |-> "immediate_staggered_closed_loop"]

(* A request of one segment never defers its winner, so RealizedOverrun is *)
(* never enabled; the instance of two segments is in MCRequests.           *)
TwoNext ==
    \/ SelectionStep
    \/ PlannerStep
    \/ \E o \in Owners, g \in Segments :
         \/ \E r \in Replicas, admitted \in BOOLEAN : BeginWinnerPrefetch(o, g, r, admitted)
         \/ WinnerReady(o, g)
         \/ CompleteReuseExecution(o, g)
    \/ \E i \in DOMAIN hbm.rows : ReleaseWorkspace(i)
    \/ \E r \in Replicas : EvictIdleReplica(r)

-----------------------------------------------------------------------------
(* The selector: a band of 20%, two checkpoints.                           *)
TwoThresholds == <<100, 150>>

(* The planners: what a segment saves may be nothing, or less.             *)
Excess == {-1, 1, 3}
Segment3 == [saved : {-1, 1, 2}, bytes : {1, 2}, flag : BOOLEAN]

(* The v6 pool: two Variants of one content on the SSD and one Source on   *)
(* the CPU for model ma, one Source for mb, which goes first.              *)
ModelOfKey == [k \in PoolKeys |-> IF k = pd THEN mb ELSE ma]
ContentOfKey == [k \in PoolKeys |-> IF k = pc THEN "c2" ELSE "c1"]
HomeOfKey == [k \in PoolKeys |-> IF k = pc THEN dram ELSE ssd]
UnitBytes == [k \in PoolKeys |-> 1]
DramSsd == (dram :> 2) @@ (ssd :> 3)
OneForMa == [m \in PoolModels |-> [t \in Locations |-> IF m = ma THEN 1 ELSE 3]]

-----------------------------------------------------------------------------
Some(S) == CHOOSE x \in S : TRUE

OneProblem ==
  LET o == Some(SegmentOptions)
  IN  [kind |-> Some(Planners), saved |-> [i \in 1..OptionCount |-> o.saved],
       bytes |-> [i \in 1..OptionCount |-> o.bytes], flag |-> [i \in 1..OptionCount |-> o.flag],
       excess |-> 1, limit |-> 1]

PartsInit ==
  /\ part \in Parts
  /\ Init
  /\ CommitInit /\ (part # "commit" => commitPolicy = Some(CommitPolicies))
  /\ SelectionInit /\ (part # "selector" => selector = Some(Selectors))
  /\ BudgetInit /\ (part # "budget" => budgetMs = FractionMs)
  /\ IF part = "planner" THEN PlannerInit ELSE problem = OneProblem /\ answer = Unanswered
  /\ GlobalPoolInit /\ (part # "global" => servingMode = "single")

RequestPart(A) == part = "requests" /\ A /\ UNCHANGED
    <<part, commitVars, selectionVars, budgetVars, plannerVars, globalVars>>
CommitPart(A) == part = "commit" /\ A /\ UNCHANGED
    <<part, vars, selectionVars, budgetVars, plannerVars, globalVars>>
SelectorPart(A) == part = "selector" /\ A /\ UNCHANGED
    <<part, vars, commitVars, budgetVars, plannerVars, globalVars>>
BudgetPart(A) == part = "budget" /\ A /\ UNCHANGED
    <<part, vars, commitVars, selectionVars, plannerVars, globalVars>>
PlannerPart(A) == part = "planner" /\ A /\ UNCHANGED
    <<part, vars, commitVars, selectionVars, budgetVars, globalVars>>
GlobalPart(A) == part = "global" /\ A /\ UNCHANGED
    <<part, vars, commitVars, selectionVars, budgetVars, plannerVars>>

PartsNext ==
    \/ RequestPart(TwoNext)
    \/ CommitPart(CommitNext)
    \/ SelectorPart(SelectionNext)
    \/ BudgetPart(BudgetNext)
    \/ PlannerPart(PlannerAnswers)
    \/ GlobalPart(GlobalPoolNext)

PartsSpec ==
    PartsInit /\ [][PartsNext]_<<part, vars, commitVars, selectionVars,
                                budgetVars, plannerVars, globalVars>>
=============================================================================
