-------------------------- MODULE ProfileAnalysis --------------------------
(***************************************************************************)
(* src/probekv/v8_schema10_profile_analysis.py: the residual thresholds    *)
(* calibrated on the development cases, the metrics of each selection      *)
(* dispatch under them, the dispatch that is frozen, and the Source it     *)
(* selects for a case when Stage B replays the selection.  Residuals are   *)
(* integers; shares and the mean regret are compared without division.     *)
(***************************************************************************)
EXTENDS Integers, Sequences, FiniteSetsExt, SequencesExt, Functions

CONSTANTS Tables,            \* residual of [case][checkpoint][source], for each trim ratio
          CheckpointDepths,  \* SCHEMA10_MODEL_CHECKPOINTS of the model
          WrongLimit, CoverageLimit, RegretLimit   \* 5, 80 and 10 in the code

VARIABLES tables,      \* one table for each trim ratio, in grid order
          timely,      \* selection_p95_dense_fraction <= 0.05, the same for all
          dispatch,    \* the dispatch that was frozen, or NoDispatch
          replayed     \* what select_case_source returns for each case

analysisVars == <<tables, timely, dispatch, replayed>>

NoSourceId == 0
NoDispatch == [name |-> "none"]
AllDepths == 1..Len(CheckpointDepths)
Dispatches == [d1_only |-> <<1>>, d1_d2_rescue |-> <<1, 2>>,
               legacy_multicheckpoint |-> [k \in AllDepths |-> k]]

(* min by (residual_score, source_id) over the Sources of one cell.        *)
BestSource(cell) ==
  CHOOSE s \in DOMAIN cell : \A t \in DOMAIN cell :
    cell[s] < cell[t] \/ (cell[s] = cell[t] /\ s <= t)
Oracle(table, c) == BestSource(table[c][Len(CheckpointDepths)])

(* build_threshold_table: the largest residual that accepts no more than   *)
(* the limit of wrong Sources; 0 where there is none.                      *)
Threshold(table, k) ==
  LET best == [c \in DOMAIN table |-> BestSource(table[c][k])]
      score == [c \in DOMAIN table |-> table[c][k][best[c]]]
      Accepted(u) == {c \in DOMAIN table : score[c] <= u}
      Wrong(u) == {c \in Accepted(u) : best[c] # Oracle(table, c)}
  IN  Max({0} \cup {u \in Range(score) :
             100 * Cardinality(Wrong(u)) <= WrongLimit * Cardinality(Accepted(u))})

(* The first depth of the dispatch whose best Source is within the         *)
(* threshold selects it (build_selection_candidates).                      *)
Choice(table, name, c) ==
  LET D == Dispatches[name]
      Ready == {i \in DOMAIN D :
        table[c][D[i]][BestSource(table[c][D[i]])] <= Threshold(table, D[i])}
  IN  IF Ready = {} THEN NoSourceId ELSE BestSource(table[c][D[Min(Ready)]])

Selected(table, chosen) == {c \in DOMAIN table : chosen[c] # NoSourceId}
WrongLocks(table, chosen) == {c \in Selected(table, chosen) : chosen[c] # Oracle(table, c)}
(* The sum of the normalized regrets, exact as multiples of 1/Scale; where *)
(* the oracle's residual is 0 the code divides by 1e-12.                   *)
OracleResidual(table, c) == table[c][Len(CheckpointDepths)][Oracle(table, c)]
Scale == ProductSet({OracleResidual(tables[r], c) : r \in DOMAIN tables, c \in DOMAIN tables[1]} \ {0})
CaseRegret(table, chosen, c) ==
  LET best == OracleResidual(table, c)
      loss == table[c][Len(CheckpointDepths)][chosen[c]] - best
  IN  IF loss = 0 THEN 0
      ELSE IF best = 0 THEN 1000 * Scale * Cardinality(DOMAIN table)
      ELSE loss * (Scale \div best)
Regret(table, chosen) ==
  MapThenSumSet(LAMBDA c : CaseRegret(table, chosen, c), Selected(table, chosen))

(* The hard Gate of select_dispatch over what a dispatch selects.          *)
HardPass(table, chosen) ==
  LET n == Cardinality(Selected(table, chosen))
  IN  /\ n > 0
      /\ 100 * n >= CoverageLimit * Cardinality(DOMAIN table)
      /\ 100 * Cardinality(WrongLocks(table, chosen)) <= WrongLimit * n
      /\ 100 * Regret(table, chosen) <= RegretLimit * n * Scale

(* The candidates in the order build_selection_candidates lists them.      *)
Candidate(r, name) ==
  LET table == tables[r] chosen == [c \in DOMAIN table |-> Choice(table, name, c)]
  IN  [ratio |-> r, name |-> name, chosen |-> chosen,
       covered |-> Cardinality(Selected(table, chosen)), regret |-> Regret(table, chosen)]
Feasible ==
  {x \in {Candidate(r, name) : r \in DOMAIN tables, name \in DOMAIN Dispatches} :
     timely /\ HardPass(tables[x.ratio], x.chosen)}

(* The sort key of select_dispatch: coverage, mean regret, depths, name    *)
(* (two of one length only where the model has two checkpoints); the sort  *)
(* is stable.                                                              *)
Shorter(x, y) ==
  LET m == Len(Dispatches[x.name]) n == Len(Dispatches[y.name])
  IN  m < n \/ (m = n /\ x.name = "d1_d2_rescue" /\ y.name = "legacy_multicheckpoint")
Preferred(x, y) ==
  \/ x.covered > y.covered
  \/ /\ x.covered = y.covered
     /\ \/ x.regret < y.regret
        \/ /\ x.regret = y.regret
           /\ Shorter(x, y) \/ (~Shorter(y, x) /\ x.ratio < y.ratio)

Within(table, k, c) == table[c][k][BestSource(table[c][k])] <= Threshold(table, k)
(* select_case_source: the selection of one case under the frozen dispatch.*)
Replay(table, name, c) ==
  LET D == Dispatches[name]
      First == {i \in DOMAIN D : /\ Within(table, D[i], c)
                                 /\ \A j \in 1..(i - 1) : ~Within(table, D[j], c)}
  IN  IF First = {} THEN NoSourceId ELSE BestSource(table[c][D[Max(First)]])

AnalysisInit ==
  /\ tables \in Tables /\ timely \in BOOLEAN
  /\ dispatch = NoDispatch /\ replayed = <<>>

(* select_dispatch raises when no candidate passes.                        *)
Analyse ==
  /\ dispatch = NoDispatch /\ Feasible # {}
  /\ \E x \in Feasible :
       /\ \A y \in Feasible \ {x} : Preferred(x, y)
       /\ dispatch' = [ratio |-> x.ratio, name |-> x.name]
       /\ replayed' = [c \in DOMAIN tables[x.ratio] |-> Replay(tables[x.ratio], x.name, c)]
  /\ UNCHANGED <<tables, timely>>

AnalysisSpec == AnalysisInit /\ [][Analyse]_analysisVars

-----------------------------------------------------------------------------
(* What Stage B replays under the frozen dispatch still passes the Gate    *)
(* the dispatch was frozen for: enough of the cases reuse, of the oracle's *)
(* Sources, without regret; two programs select, on the same thresholds.   *)
ReplayPassesTheGate ==
  dispatch # NoDispatch => timely /\ HardPass(tables[dispatch.ratio], replayed)
=============================================================================
