---------------------------- MODULE RepairMasks ----------------------------
(***************************************************************************)
(* Which rows of a prompt each layer executes: the masks of                *)
(* src/probekv/repair_semantics.py (a fresh selection in each layer), and  *)
(* the supports of src/probekv/v8_schema7_repair.py that only shrink from  *)
(* layer to layer, under the three schema-7 policies.  Drift scores and    *)
(* times are small integers, ratios percentages.                           *)
(***************************************************************************)
EXTENDS Integers, FiniteSets, FiniteSetsExt

CONSTANTS PrefixRows, DenseRows,   \* exact prefix; suffix and tokens never reused
          RowsOf,                  \* the rows of each segment of the request
          LastLayer,
          DriftScores,             \* the scores a layer gives to the rows
          RatioChoices,            \* ratios of a profile, in percent
          Floor, InitialCap,       \* repair_floor and initial_cap, in percent
          LayerCosts               \* repair_ms_by_ratio and load_ms_by_path of a layer

Reusable == DOMAIN RowsOf
AllRows == PrefixRows \cup DenseRows \cup UNION {RowsOf[g] : g \in Reusable}

(* Regions do not overlap, and a policy keeps at least its floor.          *)
MasksInputs ==
  /\ IsFiniteSet(AllRows) /\ AllRows \subseteq Nat /\ LastLayer \in Nat
  /\ PrefixRows \cap (DenseRows \cup UNION {RowsOf[g] : g \in Reusable}) = {}
  /\ DriftScores \subseteq [AllRows -> Int]
  /\ RatioChoices \subseteq 1..100 /\ Floor \in 1..100 /\ InitialCap \in Floor..100
ASSUME MasksAreLegal == MasksInputs

MaskPolicies == {"staggered", "fixed_15", "static_gradual", "load_aware"}

VARIABLES maskPolicy,
          ratioOf,      \* requested ratio of each accepted segment
          boundaryOf,   \* first layer in which it is reused
          rounding,     \* "floor" (v6) or "ceil"
          layer,        \* the last layer executed
          drift,        \* the scores of that layer
          support,      \* candidate rows of each segment, {} before its boundary
          executed,     \* the rows that layer executed
          refused       \* the builder raised

maskVars == <<maskPolicy, ratioOf, boundaryOf, rounding, layer, drift, support, executed, refused>>
asked == <<maskPolicy, ratioOf, boundaryOf, rounding>>

Accepted == DOMAIN ratioOf
CeilOf(ratio, n) == (ratio * n + 99) \div 100

(* repaired_segment_token_count.                                           *)
RepairedCount(n, ratio) ==
  IF rounding = "ceil" THEN Min({n, CeilOf(ratio, n)}) ELSE (ratio * n) \div 100

(* Largest drift first, the absolute position breaks a tie.                *)
RanksAbove(d, p, q) == d[p] > d[q] \/ (d[p] = d[q] /\ p < q)
TopPositions(rows, d, n) ==
  {p \in rows : Cardinality({q \in rows \ {p} : RanksAbove(d, q, p)}) < n}

(* LoadRecomputeAwareRepairController.choose: the fastest layer, then the  *)
(* largest ratio; the path it takes is left out.                           *)
LayerMs(costs, r, path) == Max({costs.load[path], costs.repair[r]}) + costs.nonoverlap
LoadAwareRatio(costs, ratios) ==
  LET total == [r \in ratios |-> Min({LayerMs(costs, r, path) : path \in DOMAIN costs.load})]
      best == Min({total[r] : r \in ratios})
  IN  Max({r \in ratios : total[r] = best})

(* Ratios next_support may ask for, under each policy: parent_ratio is the *)
(* smaller of the cap and the effective ratio of the parent.               *)
Within(r, rows, n) == Floor <= r /\ r * n <= 100 * Cardinality(rows)
NextRatios(rows, n) ==
  CASE maskPolicy = "fixed_15" -> {InitialCap}
    [] maskPolicy = "static_gradual" -> RatioChoices
    [] OTHER ->
         LET ratios == {r \in RatioChoices : r <= InitialCap /\ Within(r, rows, n)}
         IN  IF ratios = {} THEN {} ELSE {LoadAwareRatio(c, ratios) : c \in LayerCosts}

(* Mutant: the next support is taken from the whole segment.               *)
ShrinkSegment(g, d, r) ==
  LET n == Cardinality(RowsOf[g])
  IN  TopPositions(RowsOf[g], d, Max({CeilOf(Floor, n), CeilOf(r, n)}))
(* shrink_repair_support scores the parent's rows only.                    *)
Shrink(g, d, r) ==
  LET n == Cardinality(RowsOf[g])
  IN  TopPositions(support[g], d,
        Min({Cardinality(support[g]), Max({CeilOf(Floor, n), CeilOf(r, n)})}))

Initial(g, d) ==
  TopPositions(RowsOf[g], d,
    Min({Cardinality(RowsOf[g]), CeilOf(InitialCap, Cardinality(RowsOf[g]))}))

(* The ratios a segment may be given in a layer from its boundary on, and  *)
(* its candidate rows under one.                                           *)
Shrinks(g, l) == maskPolicy # "staggered" /\ l > boundaryOf[g]
RatiosIn(g, l) ==
  IF maskPolicy = "staggered" THEN {ratioOf[g]}
  ELSE IF ~Shrinks(g, l) THEN {InitialCap}
  ELSE NextRatios(support[g], Cardinality(RowsOf[g]))
SupportIn(g, l, d, r) ==
  IF maskPolicy = "staggered"
  THEN TopPositions(RowsOf[g], d, RepairedCount(Cardinality(RowsOf[g]), r))
  ELSE IF Shrinks(g, l) THEN Shrink(g, d, r) ELSE Initial(g, d)
MayShrink(g, l, r) == Shrinks(g, l) => Within(r, support[g], Cardinality(RowsOf[g]))

ActiveIn(l) == {g \in Accepted : l >= boundaryOf[g]}

MasksInit ==
  /\ maskPolicy \in MaskPolicies /\ rounding \in {"floor", "ceil"}
  /\ \E accepted \in SUBSET Reusable :
       /\ ratioOf \in [accepted -> RatioChoices]
       /\ boundaryOf \in [accepted -> 1..LastLayer]
  /\ maskPolicy # "staggered" => rounding = "ceil"
  /\ layer = 0 /\ drift \in DriftScores
  /\ support = [g \in Reusable |-> {}] /\ executed = AllRows \ PrefixRows
  /\ refused = FALSE

(* The union mask of the next layer: the rows selected in the segments     *)
(* that are reused there, and every row of every other region but the      *)
(* exact prefix.                                                           *)
ExecuteLayer ==
  /\ layer < LastLayer /\ ~refused
  /\ layer' = layer + 1
  /\ drift' \in DriftScores
  /\ \E r \in [ActiveIn(layer') -> RatioChoices] :
       /\ \A g \in DOMAIN r : r[g] \in RatiosIn(g, layer') /\ MayShrink(g, layer', r[g])
       /\ support' = [g \in Reusable |-> IF g \in DOMAIN r THEN SupportIn(g, layer', drift', r[g])
                                        ELSE {}]
       /\ executed' = DenseRows
            \cup UNION {IF g \in DOMAIN r THEN support'[g] ELSE RowsOf[g] : g \in Reusable}
  /\ UNCHANGED <<asked, refused>>

(* No ratio of the policy lies between the floor and the parent's.         *)
Refuse ==
  /\ layer < LastLayer /\ ~refused /\ maskPolicy # "staggered"
  /\ \E g \in ActiveIn(layer + 1) :
       RatiosIn(g, layer + 1) = {}
         \/ \E r \in RatiosIn(g, layer + 1) : ~MayShrink(g, layer + 1, r)
  /\ refused' = TRUE
  /\ UNCHANGED <<asked, layer, drift, support, executed>>

MasksNext == ExecuteLayer \/ Refuse
MasksSpec == MasksInit /\ [][MasksNext]_maskVars

-----------------------------------------------------------------------------
(* A layer has the hidden state of a row only where the layer before has   *)
(* executed it: under the schema-7 policies no row comes back, whatever    *)
(* the drift of the layer and however the boundaries are staggered; each   *)
(* support keeps its floor, and no layer leaves out a row that no segment  *)
(* reuses, or executes the exact prefix.                                   *)
RowsStay ==
  /\ maskPolicy # "staggered" => executed' \subseteq executed
  /\ DenseRows \subseteq executed' /\ executed' \cap PrefixRows = {}
  /\ \A g \in Accepted : maskPolicy # "staggered" /\ support'[g] # {} =>
       /\ 100 * Cardinality(support'[g]) >= Floor * Cardinality(RowsOf[g])
       /\ support'[g] \subseteq RowsOf[g]
RowsNeverReturn == [][RowsStay]_maskVars
=============================================================================
