-------------------------- MODULE MCReuseExecutor --------------------------
(* Two segments of three and two rows and one row of question, four        *)
(* layers, ratios that keep one, two or all rows; the plans are those of   *)
(* the uniform I/O controller, those of the joint controller on one        *)
(* first layer, and a fixed ratio at the boundary layers alone.            *)
EXTENDS ReuseExecutor, TLC

CONSTANTS g1, g2, v0, v1

FirstVariant == [g \in Segments |-> v0]
ByPosition == [p \in Positions |-> p]
SixPositions == 1..6
ThreeTwo == (g1 :> {1, 2, 3}) @@ (g2 :> {4, 5})
FirstThenSecond == (g1 :> 1) @@ (g2 :> 2)

OneLayer(l, r) == [k \in Layers |-> IF k = l THEN r ELSE NoRatio]

UniformPlans == {UniformPlan(f, <<0, h, 0, 0>>) : f \in {2, 3}, h \in {66, 100}}
JointPlans == {sched \in {(g1 :> <<NoRatio, NoRatio, 66, b>>) @@ (g2 :> <<NoRatio, NoRatio, 66, c>>) :
                              b, c \in {33, 66}} :
    PlanLegal(sched, "per_segment_load_aware", TRUE)}
FixedPlans == {sched \in {(g1 :> OneLayer(b, 66)) @@ (g2 :> OneLayer(c, 66)) :
                              b \in {2}, c \in {3, 4}} :
    PlanLegal(sched, "uniform_fixed", FALSE)}
SomePlans == UniformPlans \cup JointPlans \cup FixedPlans
=============================================================================
