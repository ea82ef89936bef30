-------------------------- MODULE CommitController --------------------------
(***************************************************************************)
(* V8IncrementalCommitController (src/probekv/v8_orchestration.py:81), the *)
(* schema-5 state machine of the segments of one request around an         *)
(* incremental Gate 2 and Gate 3.  Its methods are called by a runtime in  *)
(* any order; each raises unless the phase of the segment allows it.       *)
(***************************************************************************)
EXTENDS Integers, FiniteSets

CONSTANTS SegmentCount, DecisionDepths

ASSUME CommitShape ==
    SegmentCount \in Nat \ {0} /\ DecisionDepths \subseteq Nat \ {0}

Slots == 1..SegmentCount       \* the segments in causal order
CommitPolicies == {"causal_commit_wait", "immediate_staggered_closed_loop"}

VARIABLES
    commitPolicy,
    phase,          \* RuntimeSegmentPhase of each segment
    decidedAt,      \* decision_depth, 0 for None
    timedOut        \* timeout_before_commit

commitVars == <<commitPolicy, phase, decidedAt, timedOut>>

SelectionOpen == {"probing", "selector_decision_ready"}
CommitFinal == {"reuse_commit", "refined_dense"}
InPreparation == {"provisional_reuse", "prefetching", "reuse_ready"}

CommitInit ==
    /\ commitPolicy \in CommitPolicies
    /\ phase = [k \in Slots |-> "probing"]
    /\ decidedAt = [k \in Slots |-> 0]
    /\ timedOut = [k \in Slots |-> FALSE]

(* A step of one segment: from one of the phases From to the phase to.     *)
Moves(k, From, to) ==
    /\ phase[k] \in From
    /\ phase' = [phase EXCEPT ![k] = to]
    /\ UNCHANGED commitPolicy

SelectorDecides(k, d) ==
    /\ Moves(k, {"probing"}, "selector_decision_ready")
    /\ decidedAt' = [decidedAt EXCEPT ![k] = d]
    /\ UNCHANGED timedOut

(* A segment that fails Gate 1 is probed again, or abstains at Lmax.       *)
FirstGate(k, passed, atLmax) ==
    /\ Moves(k, {"selector_decision_ready"},
             IF passed THEN "source_locked_and_leased"
             ELSE IF atLmax THEN "abstain_dense" ELSE "probing")
    /\ decidedAt' = IF passed THEN decidedAt ELSE [decidedAt EXCEPT ![k] = 0]
    /\ UNCHANGED timedOut

(* resolve_abstain keeps the decision depth.                               *)
ResolveAbstain(k) ==
    /\ phase[k] \notin CommitFinal
    /\ Moves(k, {phase[k]}, "abstain_dense")
    /\ UNCHANGED <<decidedAt, timedOut>>

SecondGate(k, passed) ==
    /\ Moves(k, {"source_locked_and_leased"},
             IF passed THEN "provisional_reuse" ELSE "predicted_dense")
    /\ UNCHANGED <<decidedAt, timedOut>>

Prefetch(k) ==
    Moves(k, {"provisional_reuse"}, "prefetching") /\ UNCHANGED <<decidedAt, timedOut>>

SlotReady(k) ==
    Moves(k, {"prefetching"}, "reuse_ready") /\ UNCHANGED <<decidedAt, timedOut>>

DownstreamOf(k) == {j \in Slots : j >= k}

(* Mutant: a segment waits for those before it.                            *)
MayCommitUpstream(k) ==
    /\ phase[k] = "reuse_ready"
    /\ commitPolicy = "causal_commit_wait" => \A j \in 1..k : phase[j] \notin SelectionOpen

(* causal_commit_ready.                                                    *)
MayCommit(k) ==
    /\ phase[k] = "reuse_ready"
    /\ commitPolicy = "causal_commit_wait"
         => \A j \in DownstreamOf(k) : phase[j] \notin SelectionOpen

ThirdGate(K, passed) ==
    /\ K # {} /\ \A k \in K : MayCommit(k)
    /\ phase' = [k \in Slots |->
                   IF k \notin K THEN phase[k]
                   ELSE IF passed THEN "reuse_commit" ELSE "refined_dense"]
    /\ UNCHANGED <<commitPolicy, decidedAt, timedOut>>

SourceTimeout(k) ==
    /\ Moves(k, InPreparation, "refined_dense")
    /\ timedOut' = [timedOut EXCEPT ![k] = TRUE]
    /\ UNCHANGED decidedAt

CommitNext ==
    \/ \E k \in Slots :
         \/ \E d \in DecisionDepths : SelectorDecides(k, d)
         \/ \E passed, atLmax \in BOOLEAN : FirstGate(k, passed, atLmax)
         \/ \E passed \in BOOLEAN : SecondGate(k, passed)
         \/ ResolveAbstain(k) \/ Prefetch(k) \/ SlotReady(k) \/ SourceTimeout(k)
    \/ \E K \in SUBSET Slots, passed \in BOOLEAN : ThirdGate(K, passed)

CommitSpec == CommitInit /\ [][CommitNext]_commitVars

(* selection_boundary: the first layer in which a segment may reuse.       *)
MaxDepth(D) == CHOOSE d \in D : \A e \in D : e <= d
SelectionBoundary(k) ==
    IF commitPolicy = "immediate_staggered_closed_loop" THEN decidedAt[k] + 1
    ELSE 1 + MaxDepth({decidedAt[j] : j \in DownstreamOf(k)})

-----------------------------------------------------------------------------
(* "REUSE_COMMIT is not [reversible].  Policy A delays a Segment until     *)
(* every causally downstream Segment has resolved selection"               *)
(* (v8_orchestration.py:84).  No later step of any segment, abstentions    *)
(* and timeouts included, undoes a commit or reopens a selection a commit  *)
(* relied on, and a segment that timed out is never committed.             *)
CommitSound ==
    \A k \in Slots :
      phase[k] = "reuse_commit" =>
        /\ decidedAt[k] > 0 /\ ~timedOut[k]
        /\ commitPolicy = "causal_commit_wait" =>
             /\ \A j \in DownstreamOf(k) : phase[j] \notin SelectionOpen
             /\ SelectionBoundary(k) > decidedAt[k]
CommitCausalAndFinal ==
    [][ /\ CommitSound'
        /\ \A k \in Slots : phase[k] \in CommitFinal => phase'[k] = phase[k] ]_phase
=============================================================================
