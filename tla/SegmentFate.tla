---------------------------- MODULE SegmentFate ----------------------------
(***************************************************************************)
(* What docs/PROBEKV_V8_PROTOCOL.md (Two-stage planning and admission)     *)
(* promises of each segment of a request, as an abstract specification:    *)
(*                                                                         *)
(*   UNDECIDED -> PROVISIONAL_REUSE -> FINAL_REUSE or REFINED_DENSE        *)
(*   UNDECIDED -> PREDICTED_DENSE (terminal for reuse)                     *)
(*                                                                         *)
(* One decision may move several segments of one request.  One transition  *)
(* more than the chain shows is allowed, because apply_gate2 allows it: a  *)
(* Gate-2 decision may also close an admitted segment as dense.  Reuse and *)
(* dense are final.                                                        *)
(***************************************************************************)
CONSTANTS Owners, Segments

VARIABLE fate

Fates == {"undecided", "admitted", "reuse", "dense"}

Init == fate = [o \in Owners |-> [g \in Segments |-> "undecided"]]

(* A Gate-2 decision, or the selector giving up on one segment.            *)
Plan(o) ==
    \E admitted \in SUBSET {g \in Segments : fate[o][g] = "undecided"},
       denied \in SUBSET {g \in Segments : fate[o][g] \in {"undecided", "admitted"}} :
        /\ admitted \cap denied = {}
        /\ fate' = [fate EXCEPT ![o] = [g \in Segments |->
                     IF g \in admitted THEN "admitted"
                     ELSE IF g \in denied THEN "dense" ELSE @[g]]]

(* A Gate-3 decision on admitted segments.                                 *)
Refine(o) ==
    \E accepted, rejected \in SUBSET {g \in Segments : fate[o][g] = "admitted"} :
        /\ accepted \cap rejected = {}
        /\ fate' = [fate EXCEPT ![o] = [g \in Segments |->
                     IF g \in accepted THEN "reuse"
                     ELSE IF g \in rejected THEN "dense" ELSE @[g]]]

Next == \E o \in Owners : Plan(o) \/ Refine(o)

Spec == Init /\ [][Next]_fate

=============================================================================
