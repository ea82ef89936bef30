----------------------------- MODULE MCRequests -----------------------------
(* A request of two segments that compete for one Source, under the        *)
(* controller of schema 6 or, behind the barrier, that of schema 8.        *)
EXTENDS BarrierController, TLC

CONSTANTS o1, g1, g2, s1, r1

VARIABLE schema

OneSourceOf == r1 :> s1
OneTierOf   == r1 :> "cpu"
OneSizeOf   == r1 :> 2
OneNamespaceOf == s1 :> "n1"
FirstThenRest == [g \in Segments |-> IF g = g1 THEN 1 ELSE 2]
CausalPolicy == [o \in Owners |-> "causal_commit_wait"]

RequestsInit == schema \in {6, 8} /\ BInit
RequestsNext ==
    \/ schema = 6 /\ Next /\ UNCHANGED <<schema, layer, barrier, detached>>
    \/ schema = 8 /\ BNext /\ UNCHANGED schema
RequestsSpec == RequestsInit /\ [][RequestsNext]_<<schema, bvars>>

(* The barrier is that of schema 8; before it closes the request is dense  *)
(* (docs/PROBEKV_V8_SCHEMA8_NO_GPU_HANDOFF.md:27).                         *)
DenseFirst == schema = 8 => DenseUntilBarrier
=============================================================================
