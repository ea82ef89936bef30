-------------------------- MODULE ResidualSelector --------------------------
(***************************************************************************)
(* Choosing the Source of one segment by the residual of its K states      *)
(* (src/probekv/v8_selector.py and its successors of schemas 7 to 10): at  *)
(* each checkpoint depth the Sources that could be compared are scored,    *)
(* and the selector locks one, abstains, or asks for the next checkpoint.  *)
(*                                                                         *)
(* A candidate is [score, cost, gate]: its residual, its predicted cost,   *)
(* and its Gate-1 plan (of schema 8 and later), which passed, failed or is *)
(* missing.  A margin or a tolerance is in percent; the numeric slack of   *)
(* the residual band is below one unit of score and left out.              *)
(***************************************************************************)
EXTENDS Integers, Sequences, FiniteSets, FiniteSetsExt

CONSTANTS
    SourceIds,         \* a set of integers: ids break ties
    Residuals,         \* scores
    CostsMs,           \* predicted_future_upper_ms, or the marginal lower bound
    EconomicMs,        \* gamma * dense_remaining_ms
    Eta, EtaStrong,    \* early-exit margins
    BandTolerance,
    Threshold,         \* the absolute residual of schemas 9 and 10, by depth
    ProbeDepths,       \* checkpoint_depths of schemas 5 and 7
    NoChoice

ASSUME SelectorShape ==
    /\ SourceIds \subseteq Int /\ IsFiniteSet(SourceIds) /\ NoChoice \notin SourceIds
    /\ Residuals \subseteq Nat /\ CostsMs \subseteq Nat /\ EconomicMs \in Nat
    /\ 0 <= Eta /\ Eta <= EtaStrong /\ EtaStrong <= 100
    /\ BandTolerance \in 0..100 /\ Threshold \in [{1, 2} -> Nat]

Selectors == {"v5", "s7", "s7_oracle", "s8", "s9", "s10_barrier", "s10_advisory"}
Staged == {"s8", "s9", "s10_barrier", "s10_advisory"}

VARIABLES
    selector,   \* which selector the request is configured with
    depth,      \* the checkpoint it has reached
    previous,   \* the best Source of the checkpoint before, or NoChoice
    input,      \* what is compared there: [eligible, available, cand]
    outcome     \* [state, source, reason]

selectionVars == <<selector, depth, previous, input, outcome>>

Compared(in) == DOMAIN in.cand
Nothing == [eligible |-> 0, available |-> 0, cand |-> <<>>]
Result(state, source, reason) == [state |-> state, source |-> source, reason |-> reason]

-----------------------------------------------------------------------------
(***************************************************************************)
(* Ranking.                                                                *)
(***************************************************************************)
Precedes(a, b) == \E i \in DOMAIN a : a[i] < b[i] /\ \A j \in 1..(i - 1) : a[j] = b[j]
First(S, Key(_)) == CHOOSE x \in S : \A y \in S \ {x} : Precedes(Key(x), Key(y))

ByResidual(in, S) == First(S, LAMBDA x : <<in.cand[x].score, in.cand[x].cost, x>>)
ByScore(in, S) == First(S, LAMBDA x : <<in.cand[x].score, x>>)
ByCost(in, S) == First(S, LAMBDA x : <<in.cand[x].cost, in.cand[x].score, x>>)

(* (second - best) / max(second, 1e-12) >= percent.                        *)
MarginReaches(best, second, percent) ==
    IF second = 0 THEN percent = 0 ELSE 100 * (second - best) >= percent * second

WinsBy(in, S, best, percent) ==
    LET second == ByScore(in, S \ {best})
    IN  MarginReaches(in.cand[best].score, in.cand[second].score, percent)

(* Mutant: the band is taken around the last candidate.                    *)
BandAroundWorst(in, S, best) ==
    {x \in S : \E y \in S : 100 * in.cand[x].score <= (100 + BandTolerance) * in.cand[y].score}

Band(in, S, best) ==
    {x \in S : 100 * in.cand[x].score <= (100 + BandTolerance) * in.cand[best].score}

Economic(in, x) == in.cand[x].cost <= EconomicMs

-----------------------------------------------------------------------------
(***************************************************************************)
(* evaluate_checkpoint of schema 5, with ABSTAIN_DENSE for an insufficient *)
(* ranking, and the proposal evaluate_checkpoint_trace makes before it.    *)
(***************************************************************************)
EvaluateCheckpoint(atMax, in, prev) ==
    LET C == Compared(in)
        best == ByResidual(in, C)
        locks(x, reason) == Result("locked", x, reason)
        abstains(reason) == Result("abstained", NoChoice, reason)
        pending == Result("pending", NoChoice, "none")
        final == {x \in Band(in, C, best) : Economic(in, x)}
    IN  CASE in.eligible = 0 -> abstains("no_correctness_eligible_source")
          [] in.eligible # 0 /\ C = {} ->
               abstains(IF in.available = 0 THEN "selection_state_unavailable"
                                            ELSE "comparison_budget_exhausted")
          [] in.eligible = 1 /\ C # {} ->
               IF Economic(in, best) THEN locks(best, "single")
               ELSE IF atMax THEN abstains("preliminary_economic_rejection") ELSE pending
          [] in.eligible > 1 /\ Cardinality(C) = 1 -> abstains("insufficient_ranking_coverage")
          [] OTHER ->
               IF Economic(in, best) /\ WinsBy(in, C, best, EtaStrong) THEN locks(best, "strong")
               ELSE IF Economic(in, best) /\ prev = best /\ WinsBy(in, C, best, Eta)
                    THEN locks(best, "stable")
               ELSE IF ~atMax THEN pending
               ELSE IF final = {} THEN abstains("max_depth_no_economic_candidate")
               ELSE locks(ByCost(in, final), "max_depth")

(* What the trace proposes before Gate 1, or NoChoice.                     *)
Proposal(atMax, in, prev) ==
    LET C == Compared(in)
        best == ByResidual(in, C)
    IN  CASE in.eligible = 1 /\ C # {} -> best
          [] in.eligible > 1 /\ Cardinality(C) > 1 ->
               IF atMax THEN ByCost(in, Band(in, C, best))
               ELSE IF \/ WinsBy(in, C, best, EtaStrong)
                       \/ prev = best /\ WinsBy(in, C, best, Eta)
                    THEN best ELSE NoChoice
          [] OTHER -> NoChoice

(* evaluate_trace of schema 7 under DEEP_FULL_CANDIDATE_ORACLE: one        *)
(* comparison of every eligible Source, at the last checkpoint.            *)
DeepOracle(in) ==
    LET best == ByScore(in, Compared(in))
    IN  IF Compared(in) = {} THEN Result("abstained", NoChoice, "selection_state_unavailable")
        ELSE IF Economic(in, best) THEN Result("locked", best, "max_depth")
        ELSE Result("abstained", NoChoice, "max_depth_no_economic_candidate")

-----------------------------------------------------------------------------
(***************************************************************************)
(* decide() of schemas 8, 9 and 10, at completed depth 1 or 2.             *)
(***************************************************************************)
Passed(in, x)  == in.cand[x].gate = "passed"
Planned(in, x) == in.cand[x].gate # "missing"
ShortRanking(in) == in.eligible > 1 /\ Cardinality(Compared(in)) < 2
ScopeComplete(in) == in.eligible = in.available /\ in.available = Cardinality(Compared(in))
Compatible(in, d) == {x \in Compared(in) : in.cand[x].score <= Threshold[d]}

(* At depth 1 only a Source that is alone or wins by a margin is chosen.   *)
Decisive(in, C, best, prev) ==
    \/ in.eligible = 1
    \/ /\ Cardinality(C) > 1
       /\ \/ WinsBy(in, C, best, EtaStrong)
          \/ prev = best /\ WinsBy(in, C, best, Eta)

GivesUp(d, reason) ==
    Result(IF d = 1 THEN "continue_probe" ELSE "abstained", NoChoice, reason)

Schema8(d, in, prev) ==
    LET C == Compared(in)
        best == ByScore(in, C)
        economic == {x \in Band(in, C, best) : Passed(in, x)}
    IN  IF ShortRanking(in) THEN GivesUp(d, "insufficient_ranking_coverage")
        ELSE IF C = {} THEN GivesUp(d, "miss")
        ELSE IF d = 1
        THEN IF Decisive(in, C, best, prev) /\ Passed(in, best)
             THEN Result("decision_ready", best, "d1") ELSE GivesUp(1, "d1_not_decisive")
        ELSE IF economic = {} THEN GivesUp(2, "no_economic_source")
        ELSE Result("decision_ready", ByCost(in, economic), "d2")

(* The reason of an abstention carries materialization_candidate.          *)
Schema9(d, in, prev) ==
    LET C == Compared(in)
        fit == Compatible(in, d)
        best == ByScore(in, C)
        economic == {x \in Band(in, fit, ByScore(in, fit)) : Passed(in, x)}
    IN  IF ShortRanking(in) THEN GivesUp(d, "insufficient_ranking_coverage")
        ELSE IF C = {} THEN GivesUp(d, "miss")
        ELSE IF fit = {}
        THEN GivesUp(d, IF d = 2 /\ ScopeComplete(in) THEN "materialize" ELSE "incompatible")
        ELSE IF d = 1
        THEN IF Decisive(in, C, best, prev) /\ Passed(in, best)
             THEN Result("decision_ready", best, "d1") ELSE GivesUp(1, "d1_not_decisive")
        ELSE IF economic = {} THEN GivesUp(2, "no_economic_source")
        ELSE Result("decision_ready", ByCost(in, economic), "d2")

(* Mutant: the barrier takes a plan for one that passed.                   *)
AdmitsPlanned(mode, in, x) == Planned(in, x)

(* In FUSED_ADVISORY mode a Gate-1 plan that failed is only recorded.      *)
Admits(mode, in, x) == Passed(in, x) \/ (mode = "s10_advisory" /\ Planned(in, x))

(* An abstention at depth 2 carries the reason for a materialization.      *)
Schema10(mode, d, in, prev) ==
    LET C == Compared(in)
        fit == Compatible(in, d)
        best == ByScore(in, C)
        eligible == {x \in Band(in, fit, ByScore(in, fit)) : Admits(mode, in, x)}
        orElse(reason, shallow) == IF d = 2 THEN reason ELSE shallow
    IN  IF C = {}
        THEN GivesUp(d, IF d = 2 /\ in.eligible = 0 THEN "content_miss" ELSE "miss")
        ELSE IF ShortRanking(in)
        THEN GivesUp(d, orElse("explore_truncated", "insufficient_ranking_coverage"))
        ELSE IF fit = {}
        THEN GivesUp(d, orElse(IF ScopeComplete(in) THEN "materialize" ELSE "explore_truncated",
                               "incompatible"))
        ELSE IF d = 1
        THEN IF Decisive(in, C, best, prev) /\ Admits(mode, in, best)
             THEN Result("decision_ready", best, "d1") ELSE GivesUp(1, "d1_not_decisive")
        ELSE IF eligible = {} THEN GivesUp(2, "no_preparation_candidate")
        ELSE Result("decision_ready", ByCost(in, eligible), "d2")

-----------------------------------------------------------------------------
(***************************************************************************)
(* The checkpoints of one segment.                                         *)
(***************************************************************************)
CheckpointsOf(x) == IF x \in Staged THEN {1, 2} ELSE ProbeDepths
Deepest(x) == CHOOSE d \in CheckpointsOf(x) : \A e \in CheckpointsOf(x) : e <= d
Shallowest(x) == CHOOSE d \in CheckpointsOf(x) : \A e \in CheckpointsOf(x) : d <= e
Open == {"pending", "continue_probe"}

SelectionStarts(x) ==
    /\ selector = x
    /\ depth = IF x = "s7_oracle" THEN Deepest(x) ELSE Shallowest(x)
    /\ previous = NoChoice /\ input = Nothing
    /\ outcome = Result("probing", NoChoice, "none")

SelectionInit == \E x \in Selectors : SelectionStarts(x)

Candidates(x) ==
    IF x \in Staged
    THEN [score : Residuals, cost : {c \in CostsMs : c <= EconomicMs}, gate : {"passed", "failed"}]
           \cup [score : Residuals, cost : {EconomicMs}, gate : {"missing"}]
    ELSE [score : Residuals, cost : CostsMs, gate : {"missing"}]

(* CandidateCounts is a chain, eligible >= available >= compared; sources  *)
(* are interchangeable up to the order of their ids.                       *)
Inputs(x) ==
    UNION {{[eligible |-> n + e, available |-> a, cand |-> cand] :
               cand \in [1..n -> Candidates(x)], a \in n..(n + e)} :
           n \in 0..Cardinality(SourceIds), e \in 0..1}

DecideBy(x, d, in, prev) ==
    CASE x \in {"v5", "s7"} -> EvaluateCheckpoint(d = Deepest(x), in, prev)
      [] x = "s7_oracle" -> DeepOracle(in)
      [] x = "s8" -> Schema8(d, in, prev)
      [] x = "s9" -> Schema9(d, in, prev)
      [] OTHER -> Schema10(x, d, in, prev)

(* The oracle refuses a comparison that left an eligible Source out.       *)
Compare ==
    /\ outcome.state = "probing"
    /\ \E in \in Inputs(selector) :
         /\ selector = "s7_oracle" => Cardinality(Compared(in)) = in.eligible
         /\ input' = in
         /\ outcome' = DecideBy(selector, depth, in, previous)
    /\ UNCHANGED <<selector, depth, previous>>

(* evaluate_trace goes on while the decision is pending; depth 2 of the    *)
(* staged selectors does not look at the previous best.                    *)
Deepen ==
    /\ outcome.state \in Open
    /\ depth' = CHOOSE d \in CheckpointsOf(selector) :
                  /\ d > depth
                  /\ \A e \in CheckpointsOf(selector) : e > depth => d <= e
    /\ previous' = IF selector \in Staged THEN NoChoice ELSE ByResidual(input, Compared(input))
    /\ input' = Nothing
    /\ outcome' = Result("probing", NoChoice, "none")
    /\ UNCHANGED selector

SelectionNext == Compare \/ Deepen

SelectionSpec == SelectionInit /\ [][SelectionNext]_selectionVars

-----------------------------------------------------------------------------
(***************************************************************************)
(* Properties.                                                             *)
(***************************************************************************)
Screened(x) == selector \in {"s9", "s10_barrier", "s10_advisory"}
                 => input.cand[x].score <= Threshold[depth]
Admissible(x) ==
    /\ Screened(x)
    /\ IF selector = "s10_advisory" THEN Planned(input, x)
       ELSE IF selector \in Staged THEN Passed(input, x) ELSE Economic(input, x)

(* Whatever the depth and the reason, the Source a selector chooses passed *)
(* its gates, is within the residual band of the best Source that could    *)
(* be used, and no other admissible Source beats it on residual and cost.  *)
ChoiceJustified ==
    outcome.source # NoChoice =>
        LET x == outcome.source
            usable == {y \in Compared(input) : Screened(y)}
        IN  /\ x \in usable /\ Admissible(x)
            /\ \A y \in usable :
                 100 * input.cand[x].score <= (100 + BandTolerance) * input.cand[y].score
            /\ \A y \in usable : Admissible(y) =>
                   \/ input.cand[y].score >= input.cand[x].score
                   \/ input.cand[y].cost >= input.cand[x].cost

(* The revisions of the staged selector decide alike where they are meant  *)
(* to: schema 10 behind its barrier as schema 9, schema 9 as schema 8 when *)
(* every residual is below the threshold; and a complete comparison        *)
(* without a fitting Source is one for both materializations.              *)
RevisionsAgree ==
    selector \in Staged /\ outcome.state # "probing" =>
        LET eight == Schema8(depth, input, previous)
            nine  == Schema9(depth, input, previous)
            ten   == Schema10("s10_barrier", depth, input, previous)
        IN  /\ <<ten.state, ten.source>> = <<nine.state, nine.source>>
            /\ Compatible(input, depth) = Compared(input)
                 => <<nine.state, nine.source>> = <<eight.state, eight.source>>
            /\ nine.reason = "materialize" <=> ten.reason = "materialize"

(* The Source the trace freezes is the one it proposed before Gate 1.  The *)
(* exception is the code's: at the last depth the trace proposes the       *)
(* cheapest of the band while a winner by a margin is locked as it is.     *)
TraceAgrees ==
    selector = "v5" /\ outcome.state = "locked" =>
        \/ Proposal(depth = Deepest("v5"), input, previous) = outcome.source
        \/ depth = Deepest("v5") /\ outcome.reason \in {"strong", "stable"}

DecisionsAgree == RevisionsAgree /\ TraceAgrees

-----------------------------------------------------------------------------
(***************************************************************************)
(* The comparison budget of one request (ComparisonBudget and              *)
(* RequestSelectionBudgetLedger, src/probekv/v8_selector.py:95): what the  *)
(* fraction of the dense reference leaves after the sunk costs, reserved   *)
(* per batch by its predicted upper bound, and settled with the realized   *)
(* time, which may be more.  Times are whole units; the slack of the       *)
(* comparisons is below one.                                               *)
(***************************************************************************)
CONSTANTS
    Batches,        \* reservation ids, used once each
    UpperMs,        \* predicted_upper_ms of a batch
    OverrunMs,      \* by how much a realized time may exceed the prediction
    SunkMs,         \* shared probe, metadata and other sunk costs of a request
    FractionMs      \* budget_fraction * dense_reference_ms

ASSUME BudgetShape ==
    /\ UpperMs \subseteq Nat /\ OverrunMs \in Nat
    /\ SunkMs \subseteq Nat /\ FractionMs \in Nat

VARIABLES
    budgetMs,       \* total_budget_ms
    settledMs,      \* settled_actual_ms
    reservedMs,     \* the outstanding reservations, by batch
    closed,         \* comparison_closed
    overrunMs       \* the time by which predictions were exceeded so far

budgetVars == <<budgetMs, settledMs, reservedMs, closed, overrunMs>>

Held == DOMAIN reservedMs
OutstandingMs == MapThenSumSet(LAMBDA b : reservedMs[b], Held)
AtLeastZero(n) == IF n < 0 THEN 0 ELSE n

(* Mutant: what is reserved and not yet settled is spent again.            *)
AvailableUnreserved == AtLeastZero(budgetMs - settledMs)

AvailableMs == AtLeastZero(budgetMs - settledMs - OutstandingMs)

(* new_ledger: a budget without anything left is closed from the start.    *)
BudgetInit ==
    \E sunk \in SunkMs :
      /\ budgetMs = AtLeastZero(FractionMs - sunk)
      /\ settledMs = 0 /\ overrunMs = 0 /\ reservedMs = <<>>
      /\ closed = (budgetMs = 0)

(* reserve() raises when closed or beyond what is available; only a count  *)
(* of refusals changes then.                                               *)
ReserveBatch(b, upper) ==
    /\ b \notin Held /\ ~closed /\ upper <= AvailableMs
    /\ reservedMs' = [c \in Held \cup {b} |-> IF c = b THEN upper ELSE reservedMs[c]]
    /\ UNCHANGED <<budgetMs, settledMs, closed, overrunMs>>

Without(b) == [c \in Held \ {b} |-> reservedMs[c]]

CancelBatch(b) ==
    /\ b \in Held
    /\ reservedMs' = Without(b)
    /\ UNCHANGED <<budgetMs, settledMs, closed, overrunMs>>

SettleBatch(b, actual) ==
    /\ b \in Held
    /\ reservedMs' = Without(b)
    /\ settledMs' = settledMs + actual
    /\ overrunMs' = overrunMs + AtLeastZero(actual - reservedMs[b])
    /\ closed' = (closed \/ settledMs' > budgetMs)
    /\ UNCHANGED budgetMs

BudgetNext ==
    \E b \in Batches :
      \/ \E upper \in UpperMs : ReserveBatch(b, upper)
      \/ CancelBatch(b)
      \/ b \in Held /\ \E actual \in 0..(reservedMs[b] + OverrunMs) :
                            settledMs + actual <= 2 * FractionMs /\ SettleBatch(b, actual)

BudgetSpec == BudgetInit /\ [][BudgetNext]_budgetVars

-----------------------------------------------------------------------------
(* However reservations, cancellations and late settlements interleave,    *)
(* the time a request has spent and promised exceeds its budget by no more *)
(* than the realized overruns ("an observed prediction overrun, not an     *)
(* admission invariant violation", v8_selector.py:162), and once the total *)
(* is beyond the budget comparison is closed for good.                     *)
BudgetBound ==
    /\ settledMs + OutstandingMs <= budgetMs + overrunMs
    /\ settledMs > budgetMs => closed
    /\ closed => settledMs > budgetMs \/ budgetMs = 0
=============================================================================
