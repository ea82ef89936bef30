----------------------------- MODULE JointRepair -----------------------------
(***************************************************************************)
(* The request-level adaptive repair controller of schema 8                *)
(* (src/probekv/v8_schema8_repair.py): in each layer one vector of ratios  *)
(* is chosen among the candidates a caller emits, and the plan built from  *)
(* the choices is validated whole.  Ratios are whole percentages; the ids  *)
(* that break ties are in any order.                                       *)
(***************************************************************************)
EXTENDS Naturals, FiniteSets, FiniteSetsExt

CONSTANTS ReusedSegments, PlanLayers,
          CertifiedGrid, GridCap,     \* 0.10, 0.12, 0.15 and the last of them
          PolicyProfiles,             \* floor, templates and tolerances of frozen Profiles
          EmittedRatios, EmittedTemplates, EmittedCosts   \* of the candidates

VARIABLES policyProfile, firstReuse,
          given,       \* layers the caller has candidates for
          previous,    \* ratio of each Segment in the layer before
          chosenRows,  \* the ratio rows by Segment and layer
          choices,     \* the decision of each layer
          building     \* "building", "raised", "built"

jointVars == <<policyProfile, firstReuse, given, previous, chosenRows, choices, building>>

Reused == DOMAIN firstReuse
NextLayer == Min(given \ DOMAIN choices)
ActiveAt(l) == {g \in Reused : l >= firstReuse[g]}

(* JointRepairRatioCandidate at one layer, with its critical path.         *)
Emitted(active) ==
  [ratios : [active -> EmittedRatios], template : EmittedTemplates, path : EmittedCosts]
Repaired(c) == MapThenSumSet(LAMBDA g : c.ratios[g], DOMAIN c.ratios)

JointInit ==
  /\ policyProfile \in PolicyProfiles
  /\ \E S \in (SUBSET ReusedSegments) \ {{}} : firstReuse \in [S -> PlanLayers]
  /\ given \in SUBSET PlanLayers
  /\ \A g \in DOMAIN firstReuse : firstReuse[g] \in given
  /\ previous = [g \in Reused |-> GridCap]
  /\ chosenRows = <<>> /\ choices = <<>> /\ building = "building"

-----------------------------------------------------------------------------
(* choose_layer raises for a candidate outside of what the Profile         *)
(* certified or above the layer before, and does not drop it.              *)
Certified(c) ==
  /\ c.template \in policyProfile.templates
  /\ \A g \in DOMAIN c.ratios :
       /\ c.ratios[g] \in CertifiedGrid
       /\ policyProfile.floor <= c.ratios[g] /\ c.ratios[g] <= GridCap
       /\ c.ratios[g] <= previous[g]
       /\ c.template = "uniform_floor" => c.ratios[g] = policyProfile.floor
       /\ c.template = "uniform_cap" => c.ratios[g] = GridCap

(* choose_request_level_adaptive_ratio: of what cannot be told apart from  *)
(* the fastest, what repairs the most.                                     *)
Equivalent(C) ==
  LET best == Min({c.path : c \in C})
      slack == Max({100 * policyProfile.absolute, policyProfile.relative * best})
  IN  {c \in C : 100 * c.path <= 100 * best + slack}
MostRepair(C) ==
  {c \in Equivalent(C) : \A d \in Equivalent(C) : Repaired(d) <= Repaired(c)}

Remembered(ratios) ==
  [g \in Reused |-> IF g \in DOMAIN ratios THEN ratios[g] ELSE previous[g]]

(* One layer of build_plan; layers before every boundary are refused.      *)
ChooseLayer ==
  /\ building = "building" /\ given \ DOMAIN choices # {}
  /\ LET l == NextLayer  active == ActiveAt(l)
     IN  IF active = {}
         THEN building' = "raised" /\ UNCHANGED <<previous, chosenRows, choices>>
         ELSE \E c, d \in Emitted(active) :
                IF ~(Certified(c) /\ Certified(d))
                THEN building' = "raised" /\ UNCHANGED <<previous, chosenRows, choices>>
                ELSE \E best \in MostRepair({c, d}) :
                       /\ choices' = [k \in DOMAIN choices \cup {l} |->
                                        IF k = l THEN best.ratios ELSE choices[k]]
                       /\ chosenRows' = [p \in DOMAIN chosenRows \cup (active \X {l}) |->
                                           IF p[2] = l THEN best.ratios[p[1]] ELSE chosenRows[p]]
                       /\ previous' = Remembered(best.ratios)
                       /\ UNCHANGED building
  /\ UNCHANGED <<policyProfile, firstReuse, given>>

(* MultiSegmentRepairRatioPlan for the scope per_segment_load_aware.       *)
LayersOf(g) == {p[2] : p \in {q \in DOMAIN chosenRows : q[1] = g}}
PlanValid ==
  /\ DOMAIN chosenRows # {}
  /\ \A p \in DOMAIN chosenRows :
       /\ policyProfile.floor <= chosenRows[p] /\ chosenRows[p] <= GridCap
       /\ chosenRows[p] \in CertifiedGrid
       /\ \A k \in LayersOf(p[1]) : k > p[2] => chosenRows[<<p[1], k>>] <= chosenRows[p]
  /\ DOMAIN choices = {p[2] : p \in DOMAIN chosenRows}
  /\ \A l \in DOMAIN choices :
       choices[l] = [g \in {p[1] : p \in {q \in DOMAIN chosenRows : q[2] = l}} |-> chosenRows[<<g, l>>]]

FinishPlan ==
  /\ building = "building" /\ given \subseteq DOMAIN choices
  /\ building' = IF PlanValid THEN "built" ELSE "invalid"
  /\ UNCHANGED <<policyProfile, firstReuse, given, previous, chosenRows, choices>>

JointNext == ChooseLayer \/ FinishPlan
JointSpec == JointInit /\ [][JointNext]_jointVars

-----------------------------------------------------------------------------
(* The layer-by-layer controller never builds what the validation of whole *)
(* plans refuses, and in each layer it chose from, no Segment repairs more *)
(* than in a layer before, gaps in the layers included.                    *)
BuiltPlansValid ==
  /\ building # "invalid"
  /\ \A p, q \in DOMAIN chosenRows :
       p[1] = q[1] /\ p[2] < q[2] => chosenRows[q] <= chosenRows[p]
=============================================================================
