--------------------------- MODULE JointPlanners ---------------------------
(***************************************************************************)
(* The request-level planners: which of the locked segments of a request   *)
(* reuse and which stay dense, so that the request meets gamma * dense.    *)
(*   v7         JointRequestPlanner (src/probekv/v7_planner.py:155)        *)
(*   predicted  PredictedJointPlanner (v8_planner.py:114)                  *)
(*   refined    RefinedJointPlanner (v8_planner.py:286)                    *)
(*   gate2      PredictedJointPlannerV6 (v8_schema6_planner.py:89)         *)
(*   gate3      RefinedJointPlannerV6 (v8_schema6_planner.py:202), which   *)
(*              FinalCommitPlanner of schema 7 wraps                       *)
(* The last two ask an estimator; the repository's own is additive         *)
(* (DeterministicJointTimelineEstimator), and is the one modelled.         *)
(*                                                                         *)
(* A segment is [saved, bytes, flag]: its dense_remaining_ms less its      *)
(* reuse future, its HBM bytes, and the fact its planner asks for: that    *)
(* the Source is ready (v7, refined), that it is prefetched already        *)
(* (predicted), or provisional already (gate2).  Meeting gamma is saving   *)
(* at least the excess of the all-dense request over gamma * dense.        *)
(***************************************************************************)
EXTENDS Integers, Sequences, FiniteSets, FiniteSetsExt

CONSTANTS Planners, SegmentOptions, Excesses, HbmLimits, OptionCount

ASSUME PlannerShape ==
    /\ Planners \subseteq {"v7", "predicted", "refined", "gate2", "gate3"}
    /\ SegmentOptions \subseteq [saved : Int, bytes : Nat, flag : BOOLEAN]
    /\ Excesses \subseteq Int /\ HbmLimits \subseteq Nat /\ OptionCount \in Nat

VARIABLES problem, answer

plannerVars == <<problem, answer>>

Considered == 1..OptionCount        \* segments by id, which breaks ties
Saving(p, S) == MapThenSumSet(LAMBDA i : p.saved[i], S)
HbmBytes(p, S) == MapThenSumSet(LAMBDA i : p.bytes[i], S)
MeetsGamma(p, S) == Saving(p, S) >= p.excess
Flagged(p) == {i \in Considered : p.flag[i]}
Saves(p) == {i \in Considered : p.saved[i] > 0}

(* key=(marginal_saved_ms, segment_id) and key=(-marginal_saved_ms, id).   *)
SavesLess(p, i, j) ==
    p.saved[i] < p.saved[j] \/ (p.saved[i] = p.saved[j] /\ i < j)
SavesMore(p, i, j) ==
    p.saved[i] > p.saved[j] \/ (p.saved[i] = p.saved[j] /\ i < j)

(* The greedy loop: by falling saving, it takes what fits the HBM beside   *)
(* what was taken before it.                                               *)
Greedy(p, todo, taken, A) ==
    \A i \in todo :
        i \in A <=> HbmBytes(p, taken \cup {j \in A : SavesMore(p, j, i)} \cup {i}) <= p.limit
TakeGreedy(p, todo, taken) ==
    taken \cup CHOOSE A \in SUBSET todo : Greedy(p, todo, taken, A)

(* Mutant: the victim is the segment that saves most.                      *)
DroppedMost(p, D) ==
    {R \in SUBSET D : \A i \in R, j \in D \ R : SavesMore(p, i, j)}

(* The gamma loop drops the one that saves least until gamma is met or     *)
(* nothing is left to drop: what it has dropped after each turn, and what  *)
(* it leaves.                                                              *)
DroppedSets(p, D) ==
    {R \in SUBSET D : \A i \in R, j \in D \ R : SavesLess(p, i, j)}
Trim(p, S, kept) ==
    LET D == S \ kept
        stops == {R \in DroppedSets(p, D) : R = D \/ MeetsGamma(p, S \ R)}
    IN  S \ CHOOSE R \in stops : \A Q \in stops : Cardinality(R) <= Cardinality(Q)

(* Gate 2 tries the new candidates one by one in inventory order, each on  *)
(* top of those admitted before it.                                        *)
Admitted(p, provisional, A) ==
    \A i \in Considered \ provisional :
        i \in A <=> MeetsGamma(p, provisional \cup {j \in A : j < i} \cup {i})
TryEach(p, provisional) ==
    provisional \cup CHOOSE A \in SUBSET (Considered \ provisional) : Admitted(p, provisional, A)

Unanswered == [reuse |-> {}, raised |-> FALSE, done |-> FALSE]
Answer(S) == [reuse |-> S, raised |-> FALSE, done |-> TRUE]
MemoryError == [reuse |-> {}, raised |-> TRUE, done |-> TRUE]

Solve(p) ==
    CASE p.kind = "v7" ->
           Answer(Trim(p, TakeGreedy(p, Flagged(p) \cap Saves(p), {}), {}))
      [] p.kind = "predicted" ->
           IF HbmBytes(p, Flagged(p)) > p.limit THEN MemoryError
           ELSE Answer(Trim(p, TakeGreedy(p, Saves(p) \ Flagged(p), Flagged(p)), Flagged(p)))
      [] p.kind = "refined" -> Answer(Trim(p, Flagged(p) \cap Saves(p), {}))
      [] p.kind = "gate2" -> Answer(TryEach(p, Flagged(p)))
      [] OTHER -> Answer(Trim(p, Considered, {}))

(* Flags and bytes only for the planners that look at them.                *)
Posed(kind, row) ==
    /\ kind = "gate3" => \A i \in Considered : ~row[i].flag
    /\ kind \notin {"v7", "predicted"} => \A i \in Considered : row[i].bytes = 1

PlannerInit ==
    /\ answer = Unanswered
    /\ \E kind \in Planners, row \in [Considered -> SegmentOptions], e \in Excesses, h \in HbmLimits :
         /\ Posed(kind, row)
         /\ problem = [kind |-> kind, saved |-> [i \in Considered |-> row[i].saved],
                       bytes |-> [i \in Considered |-> row[i].bytes],
                       flag |-> [i \in Considered |-> row[i].flag], excess |-> e, limit |-> h]

PlannerAnswers ==
    /\ ~answer.done
    /\ answer' = Solve(problem)
    /\ UNCHANGED problem

PlannerSpec == PlannerInit /\ [][PlannerAnswers]_plannerVars

-----------------------------------------------------------------------------
(* What a planner may put into a plan at all.                              *)
MayPlan(p, S) ==
    CASE p.kind = "v7" -> S \subseteq Flagged(p) \cap Saves(p) /\ HbmBytes(p, S) <= p.limit
      [] p.kind = "predicted" ->
           /\ Flagged(p) \subseteq S /\ S \subseteq Flagged(p) \cup Saves(p)
           /\ HbmBytes(p, S) <= p.limit
      [] p.kind = "refined" -> S \subseteq Flagged(p) \cap Saves(p)
      [] p.kind = "gate2" -> Flagged(p) \subseteq S
      [] OTHER -> TRUE
Kept(p) == IF p.kind \in {"predicted", "gate2"} THEN Flagged(p) ELSE {}

(* What the greedy planners choose from, and that a segment stays out      *)
(* because of HBM alone: those that save more leave no room for it.        *)
Choosable(p) == (IF p.kind = "v7" THEN Flagged(p) ELSE Considered \ Flagged(p)) \cap Saves(p)
NoRoomFor(p, i) ==
    HbmBytes(p, Kept(p) \cup {j \in Choosable(p) : SavesMore(p, j, i)} \cup {i}) > p.limit

(* The plans that would serve a request that is given nothing.             *)
Missed(p) == {T \in SUBSET Considered : T # Kept(p) /\ MayPlan(p, T) /\ MeetsGamma(p, T)}

NothingBetter(p, S) ==
    LET none == S = Kept(p)
    IN  CASE p.kind \in {"refined", "gate3"} -> none => Missed(p) = {}
          [] p.kind = "gate2" ->
               none => \A i \in Considered \ S : ~MeetsGamma(p, S \cup {i})
          [] OTHER ->
               /\ none => \A T \in Missed(p) : \E i \in T \ S : NoRoomFor(p, i)
               /\ ~none => \A i \in Choosable(p) \ S : HbmBytes(p, S \cup {i}) > p.limit

(* "The final runtime may accept/reject": a plan is one the request may    *)
(* run, and either meets gamma or adds nothing to what it had to keep.     *)
(* When the refined planner or Gate 3 adds nothing, no plan would meet     *)
(* gamma; when Gate 2 adds nothing, no single addition would.  A greedy    *)
(* planner (v7, predicted) that adds nothing may miss a plan that meets    *)
(* gamma, but only one with a segment for which those that save more leave *)
(* no room in HBM; one that adds something leaves nothing out that saves   *)
(* and fits.                                                               *)
PlansExact ==
    answer.done =>
      LET S == answer.reuse
      IN  IF answer.raised THEN \A T \in SUBSET Considered : ~MayPlan(problem, T)
          ELSE /\ MayPlan(problem, S)
               /\ (S = Kept(problem) \/ MeetsGamma(problem, S))
               /\ NothingBetter(problem, S)
=============================================================================
