--------------------------- MODULE PrefillSession ---------------------------
(***************************************************************************)
(* ProbeKVResumablePrefillSession (src/probekv/resumable_prefill.py): a    *)
(* prefill that runs layer by layer and drops, immediately before a layer, *)
(* the token rows a segment reuses from its Source.  Hidden states exist   *)
(* only for active rows, so a dropped row can never come back.  Operators  *)
(* on one session record; a Can... operator is the code's own refusals.    *)
(***************************************************************************)
EXTENDS Naturals, FiniteSets

CONSTANTS
    Segments,     \* segments of the request
    Positions,    \* token rows of the prompt that are computed here
    PositionsOf,  \* [Segments -> SUBSET Positions]
    TotalLayers,
    NoSource, Sources

(* Segments are disjoint and never the whole prompt: the question follows. *)
ASSUME DisjointSegments ==
    /\ IsFiniteSet(Positions)
    /\ PositionsOf \in [Segments -> (SUBSET Positions) \ {{}}]
    /\ \A g, h \in Segments : g # h => PositionsOf[g] \cap PositionsOf[h] = {}
    /\ UNION {PositionsOf[g] : g \in Segments} # Positions
ASSUME SomeLayers == TotalLayers \in Nat \ {0}

Layers == 1..TotalLayers

(* staged is the target of the next layer; it is the active set when no    *)
(* commit or shrink is pending.  boundary 0 stands for no commit.          *)
SessionStates ==
    [layer : 0..TotalLayers, active : SUBSET Positions, staged : SUBSET Positions,
     winner : [Segments -> Sources \cup {NoSource}],
     boundary : [Segments -> 0..TotalLayers],
     repair : [Segments -> SUBSET Positions], finished : BOOLEAN]

BeginPrefill ==
    [layer |-> 0, active |-> Positions, staged |-> Positions,
     winner |-> [g \in Segments |-> NoSource],
     boundary |-> [g \in Segments |-> 0],
     repair |-> [g \in Segments |-> {}], finished |-> FALSE]

Committed(s) == {g \in Segments : s.boundary[g] # 0}

CanRegisterSource(s, g) == ~s.finished /\ s.winner[g] = NoSource
RegisterWinner(s, g, src) == [s EXCEPT !.winner[g] = src]

CanCommitReuse(s, g, src, boundary, repair) ==
    /\ ~s.finished
    /\ boundary = s.layer + 1
    /\ g \notin Committed(s)
    /\ src # NoSource /\ s.winner[g] = src
    /\ PositionsOf[g] \subseteq s.active
    /\ repair \subseteq PositionsOf[g]

CommitReuse(s, g, boundary, repair) ==
    [s EXCEPT !.boundary[g] = boundary, !.repair[g] = repair,
              !.staged = @ \ (PositionsOf[g] \ repair)]

(* shrink_segment_repair_support: kept lies within the support the segment *)
(* had, and whatever leaves the support leaves the staged target.          *)
ShrinkSupport(s, kept) ==
    [s EXCEPT
        !.repair = [g \in Segments |-> IF g \in DOMAIN kept THEN kept[g] ELSE @[g]],
        !.staged = @ \ UNION {s.repair[g] \ kept[g] : g \in DOMAIN kept}]

(* Mutant: without a pending target the layer takes the prompt's rows.     *)
RunFromPrompt(s) ==
    LET target == IF s.staged = s.active THEN Positions ELSE s.staged
    IN  [s EXCEPT !.layer = @ + 1, !.active = target, !.staged = target]

(* One layer of advance_to_layer; an empty target would be taken for none  *)
(* pending, which the question's rows exclude.                             *)
RunLayer(s) == [s EXCEPT !.layer = @ + 1, !.active = s.staged]

CanRunLayer(s) == ~s.finished /\ s.layer < TotalLayers /\ s.staged \subseteq s.active

FinishSession(s) == [s EXCEPT !.finished = TRUE]
=============================================================================
