-------------------------- MODULE SelectionProofs --------------------------
(***************************************************************************)
(* Proofs about what a request decides for each of its segments before     *)
(* anything is shared with another one: its comparison budget, the         *)
(* residual selectors, the schema-5 commit state machine, and the plan of  *)
(* the segments together.                                                  *)
(***************************************************************************)
EXTENDS CommitController, ResidualSelector, JointPlanners, FoldLemmas, TLAPS

-----------------------------------------------------------------------------
(***************************************************************************)
(* The comparison budget.                                                  *)
(***************************************************************************)
(* The invariant of the ledger.  That finitely many batches are held, each *)
(* with a natural number, is what makes the sum of the reservations one.   *)
BudgetFits ==
    /\ budgetMs \in Nat /\ settledMs \in Nat /\ overrunMs \in Nat /\ closed \in BOOLEAN
    /\ IsFiniteSet(Held) /\ reservedMs \in [Held -> Nat]
    /\ BudgetBound

(* What is outstanding is the sum of the reservations. *)
LEMMA OutstandingNow == OutstandingMs = SumOver(reservedMs, Held)
BY DEF OutstandingMs, SumOver, MapThenSumSet, MapThenFoldSet, Held

(* So it is before a step and after it. *)
LEMMA OutstandingIs ==
    /\ OutstandingMs = SumOver(reservedMs, Held)
    /\ OutstandingMs' = SumOver(reservedMs', Held')
<1>1. (OutstandingMs = SumOver(reservedMs, Held))'
  BY OutstandingNow, PTL
<1> QED
  BY <1>1, OutstandingNow

(* The outstanding time is a natural number. *)
LEMMA OutstandingNat == ASSUME BudgetFits PROVE OutstandingMs \in Nat
<1>1. IsFiniteSet(Held) /\ \A b \in Held : reservedMs[b] \in Nat
  BY DEF BudgetFits
<1> QED
  BY <1>1, OutstandingIs, SumNat

(* A new ledger fits: nothing is reserved or spent. *)
LEMMA BudgetStarts == BudgetInit => BudgetFits
<1> SUFFICES ASSUME BudgetInit PROVE BudgetFits
  OBVIOUS
<1>1. reservedMs = <<>> /\ settledMs = 0 /\ overrunMs = 0 /\ closed = (budgetMs = 0)
  BY DEF BudgetInit
<1>2. Held = {} /\ reservedMs \in [Held -> Nat]
  BY <1>1 DEF Held
<1>3. budgetMs \in Nat
  BY BudgetShape DEF BudgetInit, AtLeastZero
<1>4. OutstandingMs = 0
  BY <1>2, OutstandingIs, SumEmpty
<1>5. IsFiniteSet(Held)
  BY <1>2, FS_EmptySet
<1>6. closed \in BOOLEAN /\ (closed <=> budgetMs = 0)
  BY <1>1, Zenon
<1>7. BudgetBound
  BY <1>1, <1>3, <1>4, <1>6 DEF BudgetBound
<1> QED
  BY <1>1, <1>2, <1>3, <1>5, <1>6, <1>7 DEF BudgetFits

(* Taking a batch out of the ledger takes its time out of the sum. *)
LEMMA TakenOut ==
    ASSUME BudgetFits, NEW b \in Held, reservedMs' = Without(b)
    PROVE  /\ IsFiniteSet(Held') /\ reservedMs' \in [Held' -> Nat]
           /\ reservedMs[b] \in Nat /\ OutstandingMs' \in Nat
           /\ OutstandingMs = reservedMs[b] + OutstandingMs'
<1>1. Held' = Held \ {b}
  BY DEF Held, Without
<1>2. IsFiniteSet(Held) /\ reservedMs \in [Held -> Nat]
  BY DEF BudgetFits
<1>3. IsFiniteSet(Held')
  BY <1>1, <1>2, FS_Subset
<1>4. reservedMs' \in [Held' -> Nat] /\ \A c \in Held' : reservedMs'[c] = reservedMs[c]
  BY <1>1, <1>2 DEF Without
<1>5. OutstandingMs = reservedMs[b] + SumOver(reservedMs, Held')
  BY <1>1, <1>2, SumRemove, OutstandingIs
<1>6. SumOver(reservedMs, Held') = SumOver(reservedMs', Held')
  BY <1>3, <1>4, SumSame
<1>7. SumOver(reservedMs', Held') \in Nat
  BY <1>3, <1>4, SumNat
<1> QED
  BY <1>2, <1>3, <1>4, <1>5, <1>6, <1>7, OutstandingIs

(* A reservation adds its upper bound, which was available. *)
LEMMA ReserveKeeps ==
    ASSUME BudgetFits, NEW b \in Batches, NEW upper \in UpperMs, ReserveBatch(b, upper)
    PROVE  BudgetFits'
<1>1. b \notin Held /\ ~closed /\ upper <= AvailableMs
      /\ reservedMs' = [c \in Held \cup {b} |-> IF c = b THEN upper ELSE reservedMs[c]]
      /\ UNCHANGED <<budgetMs, settledMs, closed, overrunMs>>
  BY DEF ReserveBatch
<1>2. IsFiniteSet(Held) /\ reservedMs \in [Held -> Nat] /\ upper \in Nat
  BY BudgetShape DEF BudgetFits
<1>3. Held' = Held \cup {b}
  BY <1>1 DEF Held
<1>4. IsFiniteSet(Held')
  BY <1>2, <1>3, FS_AddElement
<1>5. reservedMs' \in [Held' -> Nat] /\ reservedMs'[b] = upper
      /\ \A c \in Held : reservedMs'[c] = reservedMs[c]
  BY <1>1, <1>2, <1>3
<1>6. SumOver(reservedMs', Held') = upper + SumOver(reservedMs', Held)
  <2>1. Held' \ {b} = Held /\ b \in Held'
    BY <1>1, <1>3
  <2> QED
    BY <1>4, <1>5, <2>1, SumRemove
<1>7. SumOver(reservedMs', Held) = SumOver(reservedMs, Held)
  BY <1>2, <1>5, SumSame
<1>8. OutstandingMs' = upper + OutstandingMs /\ OutstandingMs \in Nat
  BY <1>6, <1>7, OutstandingIs, OutstandingNat
<1>9. settledMs + OutstandingMs + upper <= budgetMs + overrunMs
  BY <1>1, <1>2, <1>8 DEF BudgetFits, BudgetBound, AvailableMs, AtLeastZero
<1> QED
  BY <1>1, <1>2, <1>4, <1>5, <1>8, <1>9 DEF BudgetFits, BudgetBound

(* A settlement adds to the overruns whatever it adds beyond its promise. *)
LEMMA SettleKeeps ==
    ASSUME BudgetFits, NEW b \in Held, NEW actual \in Nat, SettleBatch(b, actual)
    PROVE  BudgetFits'
<1>1. reservedMs' = Without(b) /\ settledMs' = settledMs + actual
      /\ overrunMs' = overrunMs + AtLeastZero(actual - reservedMs[b])
      /\ closed' = (closed \/ settledMs' > budgetMs) /\ budgetMs' = budgetMs
  BY DEF SettleBatch
<1>2. IsFiniteSet(Held') /\ reservedMs' \in [Held' -> Nat]
      /\ reservedMs[b] \in Nat /\ OutstandingMs' \in Nat
      /\ OutstandingMs = reservedMs[b] + OutstandingMs'
  BY <1>1, TakenOut
<1>3. overrunMs' \in Nat /\ actual - reservedMs[b] <= overrunMs' - overrunMs
  BY <1>1, <1>2 DEF BudgetFits, AtLeastZero
<1>4. settledMs' + OutstandingMs' <= budgetMs + overrunMs'
  BY <1>1, <1>2, <1>3 DEF BudgetFits, BudgetBound
<1>5. closed' => settledMs' > budgetMs \/ budgetMs = 0
  BY <1>1 DEF BudgetFits, BudgetBound
<1>6. budgetMs' \in Nat /\ settledMs' \in Nat
  BY <1>1 DEF BudgetFits
<1>7. closed' \in BOOLEAN /\ (settledMs' > budgetMs => closed')
  BY <1>1, Zenon
<1>8. BudgetBound'
  BY <1>1, <1>4, <1>5, <1>7 DEF BudgetBound
<1> QED
  BY <1>2, <1>3, <1>6, <1>7, <1>8 DEF BudgetFits

(* Every operation keeps the ledger. *)
LEMMA BudgetKept == BudgetFits /\ [BudgetNext]_budgetVars => BudgetFits'
<1> SUFFICES ASSUME BudgetFits, [BudgetNext]_budgetVars PROVE BudgetFits'
  OBVIOUS
<1>1. ASSUME UNCHANGED budgetVars PROVE BudgetFits'
  <2>1. UNCHANGED <<budgetMs, settledMs, reservedMs, closed, overrunMs>>
    BY <1>1 DEF budgetVars
  <2>2. OutstandingMs' = OutstandingMs /\ Held' = Held
    BY <2>1, OutstandingIs DEF Held
  <2> QED
    BY <2>1, <2>2 DEF BudgetFits, BudgetBound
<1>2. ASSUME NEW b \in Batches, NEW upper \in UpperMs, ReserveBatch(b, upper)
      PROVE  BudgetFits'
  BY <1>2, ReserveKeeps
<1>3. ASSUME NEW b \in Batches, CancelBatch(b) PROVE BudgetFits'
  <2>1. b \in Held /\ reservedMs' = Without(b)
        /\ UNCHANGED <<budgetMs, settledMs, closed, overrunMs>>
    BY <1>3 DEF CancelBatch
  <2> QED
    BY <2>1, TakenOut DEF BudgetFits, BudgetBound
<1>4. ASSUME NEW b \in Held, NEW actual \in 0..(reservedMs[b] + OverrunMs),
             SettleBatch(b, actual)
      PROVE  BudgetFits'
  <2>1. actual \in Nat
    OBVIOUS
  <2> QED
    BY <1>4, <2>1, SettleKeeps
<1> QED
  BY <1>1, <1>2, <1>3, <1>4 DEF BudgetNext

(* A request never spends and promises more than its budget and what its   *)
(* predictions were off by, and comparison is closed exactly when the      *)
(* budget is used up (RequestSelectionBudgetLedger).                       *)
THEOREM RequestsKeepBudget == BudgetSpec => []BudgetBound
<1>1. BudgetFits => BudgetBound
  BY DEF BudgetFits
<1> QED
  BY <1>1, BudgetStarts, BudgetKept, PTL DEF BudgetSpec

-----------------------------------------------------------------------------
(***************************************************************************)
(* The schema-5 commit state machine.                                      *)
(***************************************************************************)
Phases == SelectionOpen \cup CommitFinal \cup InPreparation
            \cup {"source_locked_and_leased", "predicted_dense", "abstain_dense"}

(* The invariant: a segment past its selection has a depth, unless it      *)
(* abstained; one that timed out is dense; and nothing downstream of a     *)
(* causal commit is still open.                                            *)
CommitFits ==
    /\ commitPolicy \in CommitPolicies
    /\ phase \in [Slots -> Phases] /\ decidedAt \in [Slots -> Nat]
    /\ timedOut \in [Slots -> BOOLEAN]
    /\ \A k \in Slots : phase[k] \notin {"probing", "abstain_dense"} => decidedAt[k] > 0
    /\ \A k \in Slots : timedOut[k] => phase[k] = "refined_dense"
    /\ \A k \in Slots :
         phase[k] = "reuse_commit" /\ commitPolicy = "causal_commit_wait"
           => \A j \in DownstreamOf(k) : phase[j] \notin SelectionOpen

FinalStays == \A k \in Slots : phase[k] \in CommitFinal => phase'[k] = phase[k]

(* selection_boundary of a causal commit is beyond the depth at which the  *)
(* segment itself was decided.                                             *)
LEMMA BoundaryBeyond ==
    ASSUME CommitFits, NEW k \in Slots
    PROVE  SelectionBoundary(k) > decidedAt[k]
<1> DEFINE D == {decidedAt[j] : j \in DownstreamOf(k)}
<1>1. decidedAt \in [Slots -> Nat]
  BY DEF CommitFits
<1>2. k \in DownstreamOf(k) /\ DownstreamOf(k) \subseteq Slots
  BY DEF DownstreamOf, Slots
<1>3. D \subseteq Nat /\ decidedAt[k] \in D
  BY <1>1, <1>2
<1>4. IsFiniteSet(D)
  <2>1. IsFiniteSet(Slots)
    BY CommitShape, FS_Interval DEF Slots
  <2>2. IsFiniteSet(DownstreamOf(k))
    BY <1>2, <2>1, FS_Subset
  <2> DEFINE at == [j \in DownstreamOf(k) |-> decidedAt[j]]
  <2>3. at \in Surjection(DownstreamOf(k), D)
    BY DEF Surjection
  <2> HIDE DEF at, D
  <2> QED
    BY <2>2, <2>3, FS_Surjection
<1>5. MaxDepth(D) \in D /\ \A e \in D : e <= MaxDepth(D)
  <2> HIDE DEF D
  <2>1. \E d \in D : \A e \in D : e <= d
    BY <1>3, <1>4, LargestNumber
  <2> QED
    BY <2>1, Zenon DEF MaxDepth
<1>6. decidedAt[k] <= MaxDepth(D) /\ MaxDepth(D) \in Nat /\ decidedAt[k] \in Nat
  BY <1>3, <1>5
<1>7. SelectionBoundary(k) = IF commitPolicy = "immediate_staggered_closed_loop"
                             THEN decidedAt[k] + 1 ELSE 1 + MaxDepth(D)
  BY DEF SelectionBoundary
<1> HIDE DEF D
<1> QED
  BY <1>6, <1>7

(* The invariant implies that every commit is sound. *)
LEMMA CommitFitsSound == ASSUME CommitFits PROVE CommitSound
<1> SUFFICES ASSUME NEW k \in Slots, phase[k] = "reuse_commit"
             PROVE  /\ decidedAt[k] > 0 /\ ~timedOut[k]
                    /\ commitPolicy = "causal_commit_wait" =>
                         /\ \A j \in DownstreamOf(k) : phase[j] \notin SelectionOpen
                         /\ SelectionBoundary(k) > decidedAt[k]
  BY DEF CommitSound
<1>1. SelectionBoundary(k) > decidedAt[k]
  BY BoundaryBeyond
<1> QED
  BY <1>1 DEF CommitFits

(* A request starts with every segment open. *)
LEMMA CommitStarts == CommitInit => CommitFits
BY DEF CommitInit, CommitFits, Phases, SelectionOpen

(* A step of one segment to a phase that is no commit keeps the invariant  *)
(* when it leaves the depths as the new phase wants them, opens nothing    *)
(* that was closed, and starts outside the final phases.                   *)
LEMMA OneSegmentKeeps ==
    ASSUME CommitFits, NEW k \in Slots, NEW From, NEW to \in Phases, Moves(k, From, to),
           to # "reuse_commit", phase[k] \notin CommitFinal,
           to \in SelectionOpen => phase[k] \in SelectionOpen,
           NEW d \in Nat, NEW late \in BOOLEAN,
           decidedAt' = [decidedAt EXCEPT ![k] = d], to \notin {"probing", "abstain_dense"} => d > 0,
           timedOut' = [timedOut EXCEPT ![k] = late], late => to = "refined_dense"
    PROVE  CommitFits' /\ FinalStays
<1>1. phase' = [phase EXCEPT ![k] = to] /\ commitPolicy' = commitPolicy
  BY DEF Moves
<1>2. /\ commitPolicy' \in CommitPolicies
      /\ phase' \in [Slots -> Phases] /\ decidedAt' \in [Slots -> Nat]
      /\ timedOut' \in [Slots -> BOOLEAN]
  BY <1>1 DEF CommitFits
<1>3. /\ phase'[k] = to /\ decidedAt'[k] = d /\ timedOut'[k] = late
      /\ \A j \in Slots \ {k} : /\ phase'[j] = phase[j] /\ decidedAt'[j] = decidedAt[j]
                                /\ timedOut'[j] = timedOut[j]
  BY <1>1 DEF CommitFits
<1>4. \A j \in Slots : phase'[j] \in SelectionOpen => phase[j] \in SelectionOpen
  BY <1>3
<1>5. FinalStays
  BY <1>3 DEF FinalStays
<1>6. \A j \in Slots :
         phase'[j] = "reuse_commit" /\ commitPolicy' = "causal_commit_wait"
           => \A i \in DownstreamOf(j) : phase'[i] \notin SelectionOpen
  BY <1>1, <1>3, <1>4 DEF CommitFits, DownstreamOf
<1> QED
  BY <1>2, <1>3, <1>5, <1>6 DEF CommitFits, DownstreamOf

(* Gate 3 commits only segments with nothing open downstream. *)
LEMMA ThirdGateKeeps ==
    ASSUME CommitFits, NEW K \in SUBSET Slots, NEW passed \in BOOLEAN, ThirdGate(K, passed)
    PROVE  CommitFits' /\ FinalStays
<1> DEFINE to == IF passed THEN "reuse_commit" ELSE "refined_dense"
<1>1. /\ phase' = [k \in Slots |-> IF k \notin K THEN phase[k] ELSE to]
      /\ UNCHANGED <<commitPolicy, decidedAt, timedOut>> /\ \A k \in K : MayCommit(k)
  BY DEF ThirdGate
<1>2. to \in {"reuse_commit", "refined_dense"}
  OBVIOUS
<1> HIDE DEF to
<1>3. phase' \in [Slots -> Phases]
  BY <1>1, <1>2 DEF CommitFits, Phases, CommitFinal
<1>4. \A k \in Slots : IF k \in K THEN phase'[k] = to /\ phase[k] = "reuse_ready"
                       ELSE phase'[k] = phase[k]
  BY <1>1 DEF MayCommit
<1>5. FinalStays
  BY <1>4 DEF FinalStays, CommitFinal
<1>6. \A j \in Slots : phase'[j] \in SelectionOpen => phase[j] \in SelectionOpen
  BY <1>2, <1>4 DEF SelectionOpen
<1>7. \A j \in Slots :
         phase'[j] = "reuse_commit" /\ commitPolicy' = "causal_commit_wait"
           => \A i \in DownstreamOf(j) : phase'[i] \notin SelectionOpen
  BY <1>1, <1>4, <1>6 DEF CommitFits, DownstreamOf, MayCommit
<1>8. \A k \in Slots : phase'[k] \notin {"probing", "abstain_dense"} => decidedAt'[k] > 0
  BY <1>1, <1>4 DEF CommitFits
<1>9. \A k \in Slots : timedOut'[k] => phase'[k] = "refined_dense"
  BY <1>1, <1>4 DEF CommitFits
<1> QED
  BY <1>1, <1>3, <1>5, <1>7, <1>8, <1>9 DEF CommitFits, DownstreamOf

(* Every step keeps the invariant and every final phase. *)
LEMMA CommitKept ==
    CommitFits /\ [CommitNext]_commitVars => CommitFits' /\ FinalStays
<1> SUFFICES ASSUME CommitFits, [CommitNext]_commitVars PROVE CommitFits' /\ FinalStays
  OBVIOUS
<1> USE DEF Phases, SelectionOpen, CommitFinal, InPreparation
<1>1. CASE UNCHANGED commitVars
  BY <1>1 DEF commitVars, CommitFits, FinalStays, DownstreamOf
<1>2. \A k \in Slots : /\ decidedAt = [decidedAt EXCEPT ![k] = decidedAt[k]]
                       /\ timedOut = [timedOut EXCEPT ![k] = timedOut[k]]
                       /\ decidedAt[k] \in Nat /\ timedOut[k] \in BOOLEAN
  BY DEF CommitFits
<1>3. \A k \in Slots : /\ phase[k] \notin {"probing", "abstain_dense"} => decidedAt[k] > 0
                       /\ timedOut[k] => phase[k] = "refined_dense"
  BY DEF CommitFits
<1>4. ASSUME NEW k \in Slots, NEW d \in DecisionDepths, SelectorDecides(k, d)
      PROVE  CommitFits' /\ FinalStays
  <2>1. d \in Nat /\ d > 0 /\ phase[k] = "probing" /\ ~timedOut[k]
    BY <1>3, <1>4, CommitShape DEF SelectorDecides, Moves
  <2> QED
    BY <1>2, <1>4, <2>1, OneSegmentKeeps DEF SelectorDecides
<1>5. ASSUME NEW k \in Slots, NEW passed \in BOOLEAN, NEW atLmax \in BOOLEAN,
             FirstGate(k, passed, atLmax)
      PROVE  CommitFits' /\ FinalStays
  <2>1. phase[k] = "selector_decision_ready" /\ ~timedOut[k]
    BY <1>3, <1>5 DEF FirstGate, Moves
  <2>2. CASE passed
    BY <1>2, <1>3, <1>5, <2>1, <2>2, OneSegmentKeeps DEF FirstGate
  <2>3. CASE ~passed
    BY <1>2, <1>3, <1>5, <2>1, <2>3, OneSegmentKeeps DEF FirstGate
  <2> QED
    BY <2>2, <2>3
<1>6. ASSUME NEW k \in Slots, NEW passed \in BOOLEAN, SecondGate(k, passed)
      PROVE  CommitFits' /\ FinalStays
  <2>1. phase[k] = "source_locked_and_leased" /\ ~timedOut[k]
    BY <1>3, <1>6 DEF SecondGate, Moves
  <2> QED
    BY <1>2, <1>3, <1>6, <2>1, OneSegmentKeeps DEF SecondGate
<1>7. ASSUME NEW k \in Slots, ResolveAbstain(k) PROVE CommitFits' /\ FinalStays
  <2>1. phase[k] \notin CommitFinal /\ ~timedOut[k]
    BY <1>3, <1>7 DEF ResolveAbstain
  <2> QED
    BY <1>2, <1>7, <2>1, OneSegmentKeeps DEF ResolveAbstain
<1>8. ASSUME NEW k \in Slots, Prefetch(k) \/ SlotReady(k) PROVE CommitFits' /\ FinalStays
  <2>1. phase[k] \in {"provisional_reuse", "prefetching"} /\ ~timedOut[k]
    BY <1>3, <1>8 DEF Prefetch, SlotReady, Moves
  <2> QED
    BY <1>2, <1>3, <1>8, <2>1, OneSegmentKeeps DEF Prefetch, SlotReady
<1>9. ASSUME NEW k \in Slots, SourceTimeout(k) PROVE CommitFits' /\ FinalStays
  <2>1. phase[k] \in InPreparation
    BY <1>9 DEF SourceTimeout, Moves
  <2> QED
    BY <1>2, <1>3, <1>9, <2>1, OneSegmentKeeps DEF SourceTimeout
<1>10. ASSUME NEW K \in SUBSET Slots, NEW passed \in BOOLEAN, ThirdGate(K, passed)
       PROVE  CommitFits' /\ FinalStays
  BY <1>10, ThirdGateKeeps
<1> QED
  BY <1>1, <1>4, <1>5, <1>6, <1>7, <1>8, <1>9, <1>10 DEF CommitNext

(* No commit is undone or left without the selections it relied on, for    *)
(* every number of segments (V8IncrementalCommitController).               *)
THEOREM CommitsStay == CommitSpec => CommitCausalAndFinal
<1>1. ASSUME CommitFits, [CommitNext]_commitVars
      PROVE  CommitFits' /\ CommitSound' /\ FinalStays
  <2>1. CommitFits' /\ FinalStays
    BY <1>1, CommitKept
  <2>2. (CommitFits => CommitSound)'
    BY CommitFitsSound, PTL
  <2> QED
    BY <2>1, <2>2
<1>2. CommitFits /\ [CommitNext]_commitVars
        => /\ CommitFits'
           /\ [/\ CommitSound'
               /\ \A k \in Slots : phase[k] \in CommitFinal => phase'[k] = phase[k] ]_phase
  BY <1>1 DEF FinalStays
<1> QED
  BY <1>2, CommitStarts, PTL DEF CommitSpec, CommitCausalAndFinal

-----------------------------------------------------------------------------
(***************************************************************************)
(* The residual selectors.                                                 *)
(***************************************************************************)
(* A strict order on three numbers, the first of which counts most. *)
Less3(a, b, c, d, e, f) == a < d \/ (a = d /\ (b < e \/ (b = e /\ c < f)))

(* A nonempty set with three numbers for each element has a least one. *)
LEMMA Lexicographic ==
    ASSUME NEW S, S # {}, NEW a \in [S -> Nat], NEW b \in [S -> Nat], NEW c \in [S -> Nat],
           \A x \in S, y \in S : c[x] = c[y] => x = y
    PROVE  \E x \in S : \A y \in S \ {x} : Less3(a[x], b[x], c[x], a[y], b[y], c[y])
<1> DEFINE A == {a[x] : x \in S}
<1>1. PICK m \in A : \A n \in A : m <= n
  <2>1. A \subseteq Nat /\ A # {}
    OBVIOUS
  <2> HIDE DEF A
  <2> QED
    BY <2>1, LeastNumber
<1> DEFINE S1 == {x \in S : a[x] = m}
           B == {b[x] : x \in S1}
<1>2. PICK k \in B : \A n \in B : k <= n
  <2>1. B \subseteq Nat /\ B # {}
    OBVIOUS
  <2> HIDE DEF B
  <2> QED
    BY <2>1, LeastNumber
<1> DEFINE S2 == {x \in S1 : b[x] = k}
           C == {c[x] : x \in S2}
<1>3. PICK l \in C : \A n \in C : l <= n
  <2>1. C \subseteq Nat /\ C # {}
    OBVIOUS
  <2> HIDE DEF C
  <2> QED
    BY <2>1, LeastNumber
<1>4. PICK x \in S : a[x] = m /\ b[x] = k /\ c[x] = l
  OBVIOUS
<1>5. ASSUME NEW y \in S \ {x} PROVE Less3(a[x], b[x], c[x], a[y], b[y], c[y])
  <2>1. a[y] \in Nat /\ b[y] \in Nat /\ c[y] \in Nat /\ m \in Nat /\ k \in Nat /\ l \in Nat
    BY <1>4
  <2>2. m <= a[y]
    BY <1>1
  <2>3. a[y] = m => k <= b[y]
    BY <1>2
  <2>4. a[y] = m /\ b[y] = k => l <= c[y]
    BY <1>3
  <2>5. c[y] # l
    BY <1>4
  <2> QED
    BY <1>4, <2>1, <2>2, <2>3, <2>4, <2>5 DEF Less3
<1> QED
  BY <1>4, <1>5

(* On triples Precedes is that order. *)
LEMMA PrecedesThree ==
    ASSUME NEW a, NEW b, NEW c, NEW d, NEW e, NEW f
    PROVE  Precedes(<<a, b, c>>, <<d, e, f>>) <=> Less3(a, b, c, d, e, f)
<1>1. Precedes(<<a, b, c>>, <<d, e, f>>) <=>
        \E i \in 1..3 : /\ <<a, b, c>>[i] < <<d, e, f>>[i]
                        /\ \A j \in 1..(i - 1) : <<a, b, c>>[j] = <<d, e, f>>[j]
  BY DEF Precedes
<1>2. 1..3 = {1, 2, 3} /\ 1..(1 - 1) = {} /\ 1..(2 - 1) = {1} /\ 1..(3 - 1) = {1, 2}
  OBVIOUS
<1> QED
  BY <1>1, <1>2 DEF Less3

(* On pairs it is the same with the second number twice. *)
LEMMA PrecedesTwo ==
    ASSUME NEW a, NEW c, NEW d, NEW f
    PROVE  Precedes(<<a, c>>, <<d, f>>) <=> a < d \/ (a = d /\ c < f)
<1>1. Precedes(<<a, c>>, <<d, f>>) <=>
        \E i \in 1..2 : /\ <<a, c>>[i] < <<d, f>>[i]
                        /\ \A j \in 1..(i - 1) : <<a, c>>[j] = <<d, f>>[j]
  BY DEF Precedes
<1>2. 1..2 = {1, 2} /\ 1..(1 - 1) = {} /\ 1..(2 - 1) = {1}
  OBVIOUS
<1> QED
  BY <1>1, <1>2

(* What a selector is given to compare. *)
InputFits(in) ==
    /\ in.eligible \in Nat
    /\ IsFiniteSet(Compared(in)) /\ Compared(in) \subseteq Nat
    /\ \A x \in Compared(in) : in.cand[x].score \in Nat /\ in.cand[x].cost \in Nat

(* Every input that a selector may be given is of that kind. *)
LEMMA InputsFit ==
    ASSUME NEW x, NEW in \in Inputs(x)
    PROVE  InputFits(in)
<1>1. Cardinality(SourceIds) \in Nat
  BY SelectorShape, FS_CardinalityType
<1>2. PICK n \in 0..Cardinality(SourceIds), e \in 0..1 :
        in \in {[eligible |-> n + e, available |-> a, cand |-> cand] :
                  cand \in [1..n -> Candidates(x)], a \in n..(n + e)}
  BY DEF Inputs
<1>3. in.eligible = n + e /\ in.cand \in [1..n -> Candidates(x)]
  BY <1>2
<1>4. \A c \in Candidates(x) : c.score \in Nat /\ c.cost \in Nat
  BY SelectorShape DEF Candidates
<1>5. Compared(in) = 1..n /\ n \in Nat /\ e \in Nat
  BY <1>1, <1>3 DEF Compared
<1>6. IsFiniteSet(1..n)
  BY <1>5, FS_Interval
<1> QED
  BY <1>3, <1>4, <1>5, <1>6 DEF InputFits

(* ByScore and ByResidual pick a Source with the least residual. *)
LEMMA LeastResidual ==
    ASSUME NEW in, InputFits(in), NEW S \in SUBSET Compared(in), S # {}
    PROVE  /\ ByScore(in, S) \in S
           /\ \A y \in S : in.cand[ByScore(in, S)].score <= in.cand[y].score
           /\ ByResidual(in, S) \in S
           /\ \A y \in S : in.cand[ByResidual(in, S)].score <= in.cand[y].score
<1> DEFINE score == [x \in S |-> in.cand[x].score]
           cost == [x \in S |-> in.cand[x].cost]
           id == [x \in S |-> x]
<1>1. score \in [S -> Nat] /\ cost \in [S -> Nat] /\ id \in [S -> Nat]
      /\ \A x \in S, y \in S : id[x] = id[y] => x = y
  BY DEF InputFits
<1>2. ByScore(in, S) =
        CHOOSE x \in S : \A y \in S \ {x} :
           Precedes(<<in.cand[x].score, x>>, <<in.cand[y].score, y>>)
  BY DEF ByScore, First
<1>3. ByResidual(in, S) =
        CHOOSE x \in S : \A y \in S \ {x} :
           Precedes(<<in.cand[x].score, in.cand[x].cost, x>>,
                    <<in.cand[y].score, in.cand[y].cost, y>>)
  BY DEF ByResidual, First
<1>4. \E x \in S : \A y \in S \ {x} :
           Precedes(<<in.cand[x].score, x>>, <<in.cand[y].score, y>>)
  <2>1. PICK x \in S : \A y \in S \ {x} :
          Less3(score[x], id[x], id[x], score[y], id[y], id[y])
    <3> HIDE DEF score, id
    <3> QED
      BY <1>1, Lexicographic
  <2>2. \A y \in S \ {x} : score[x] < score[y] \/ (score[x] = score[y] /\ x < y)
    BY <2>1 DEF Less3
  <2> QED
    BY <2>2, PrecedesTwo
<1>5. \E x \in S : \A y \in S \ {x} :
           Precedes(<<in.cand[x].score, in.cand[x].cost, x>>,
                    <<in.cand[y].score, in.cand[y].cost, y>>)
  <2>1. PICK x \in S : \A y \in S \ {x} :
          Less3(score[x], cost[x], id[x], score[y], cost[y], id[y])
    <3> HIDE DEF score, cost, id
    <3> QED
      BY <1>1, Lexicographic
  <2> QED
    BY <2>1, PrecedesThree
<1>6. ByScore(in, S) \in S /\ \A y \in S \ {ByScore(in, S)} :
        Precedes(<<in.cand[ByScore(in, S)].score, ByScore(in, S)>>, <<in.cand[y].score, y>>)
  BY <1>2, <1>4, Zenon
<1>7. ByResidual(in, S) \in S /\ \A y \in S \ {ByResidual(in, S)} :
        Precedes(<<in.cand[ByResidual(in, S)].score, in.cand[ByResidual(in, S)].cost,
                   ByResidual(in, S)>>,
                 <<in.cand[y].score, in.cand[y].cost, y>>)
  BY <1>3, <1>5, Zenon
<1>8. \A y \in S : in.cand[y].score \in Nat
  BY DEF InputFits
<1>9. \A y \in S \ {ByScore(in, S)} : \/ in.cand[ByScore(in, S)].score < in.cand[y].score
                                        \/ in.cand[ByScore(in, S)].score = in.cand[y].score
  BY <1>6, PrecedesTwo
<1>10. \A y \in S \ {ByResidual(in, S)} : \/ in.cand[ByResidual(in, S)].score < in.cand[y].score
                                            \/ in.cand[ByResidual(in, S)].score = in.cand[y].score
  BY <1>7, PrecedesThree DEF Less3
<1>11. \A y \in S : in.cand[ByScore(in, S)].score <= in.cand[y].score
  BY <1>6, <1>8, <1>9
<1>12. \A y \in S : in.cand[ByResidual(in, S)].score <= in.cand[y].score
  BY <1>7, <1>8, <1>10
<1> QED
  BY <1>6, <1>7, <1>11, <1>12

(* ByCost picks one that costs least, and the same one from a part that    *)
(* still holds it.                                                         *)
LEMMA LeastCost ==
    ASSUME NEW in, InputFits(in), NEW S \in SUBSET Compared(in), S # {}
    PROVE  /\ ByCost(in, S) \in S
           /\ \A y \in S : in.cand[ByCost(in, S)].cost <= in.cand[y].cost
           /\ \A y \in S \ {ByCost(in, S)} :
                Less3(in.cand[ByCost(in, S)].cost, in.cand[ByCost(in, S)].score, ByCost(in, S),
                      in.cand[y].cost, in.cand[y].score, y)
<1> DEFINE score == [x \in S |-> in.cand[x].score]
           cost == [x \in S |-> in.cand[x].cost]
           id == [x \in S |-> x]
<1>1. score \in [S -> Nat] /\ cost \in [S -> Nat] /\ id \in [S -> Nat]
      /\ \A x \in S, y \in S : id[x] = id[y] => x = y
  BY DEF InputFits
<1>2. ByCost(in, S) =
        CHOOSE x \in S : \A y \in S \ {x} :
           Precedes(<<in.cand[x].cost, in.cand[x].score, x>>,
                    <<in.cand[y].cost, in.cand[y].score, y>>)
  BY DEF ByCost, First
<1>3. \E x \in S : \A y \in S \ {x} :
           Precedes(<<in.cand[x].cost, in.cand[x].score, x>>,
                    <<in.cand[y].cost, in.cand[y].score, y>>)
  <2>1. PICK x \in S : \A y \in S \ {x} :
          Less3(cost[x], score[x], id[x], cost[y], score[y], id[y])
    <3> HIDE DEF score, cost, id
    <3> QED
      BY <1>1, Lexicographic
  <2> QED
    BY <2>1, PrecedesThree
<1>4. ByCost(in, S) \in S /\ \A y \in S \ {ByCost(in, S)} :
        Precedes(<<in.cand[ByCost(in, S)].cost, in.cand[ByCost(in, S)].score, ByCost(in, S)>>,
                 <<in.cand[y].cost, in.cand[y].score, y>>)
  BY <1>2, <1>3, Zenon
<1>5. \A y \in S \ {ByCost(in, S)} :
        Less3(in.cand[ByCost(in, S)].cost, in.cand[ByCost(in, S)].score, ByCost(in, S),
              in.cand[y].cost, in.cand[y].score, y)
  BY <1>4, PrecedesThree
<1>6. \A y \in S : in.cand[y].cost \in Nat
  BY DEF InputFits
<1>7. \A y \in S : in.cand[ByCost(in, S)].cost <= in.cand[y].cost
  BY <1>4, <1>5, <1>6 DEF Less3
<1> QED
  BY <1>4, <1>5, <1>7

-----------------------------------------------------------------------------
(* What ChoiceJustified says of a choice x: U is what could be used and A  *)
(* what is admissible among it.                                            *)
Fitting(in, U, A, x) ==
    /\ x \in A
    /\ \A y \in U : 100 * in.cand[x].score <= (100 + BandTolerance) * in.cand[y].score
    /\ \A y \in A : \/ in.cand[y].score >= in.cand[x].score
                    \/ in.cand[y].cost >= in.cand[x].cost

(* Widening by a tolerance is monotonic, and never shrinks. *)
LEMMA Widened ==
    ASSUME NEW m \in Nat, NEW n \in Nat, m <= n
    PROVE  /\ (100 + BandTolerance) * m <= (100 + BandTolerance) * n
           /\ 100 * m <= (100 + BandTolerance) * m
           /\ (100 + BandTolerance) * m \in Nat
<1>1. BandTolerance \in Nat
  BY SelectorShape
<1> QED
  BY <1>1

(* The admissible Source with the least residual fits. *)
LEMMA BestFits ==
    ASSUME NEW in, InputFits(in), NEW U \in SUBSET Compared(in), NEW A \in SUBSET U,
           NEW x \in A, \A y \in U : in.cand[x].score <= in.cand[y].score
    PROVE  Fitting(in, U, A, x)
<1>1. \A y \in U : in.cand[y].score \in Nat
  BY DEF InputFits
<1>2. ASSUME NEW y \in U
      PROVE  100 * in.cand[x].score <= (100 + BandTolerance) * in.cand[y].score
  <2> DEFINE s == in.cand[x].score
             t == in.cand[y].score
  <2>1. s \in Nat /\ t \in Nat /\ s <= t
    BY <1>1
  <2> HIDE DEF s, t
  <2>2. 100 * s <= (100 + BandTolerance) * t
    <3>1. BandTolerance \in Nat
      BY SelectorShape
    <3>2. 100 * s <= (100 + BandTolerance) * s
          /\ (100 + BandTolerance) * s <= (100 + BandTolerance) * t
      BY <2>1, Widened
    <3>3. 100 * s \in Int /\ (100 + BandTolerance) * s \in Int
          /\ (100 + BandTolerance) * t \in Int
      BY <2>1, <3>1
    <3> QED
      BY <3>2, <3>3
  <2> QED
    BY <2>2 DEF s, t
<1>3. \A y \in A : in.cand[y].score >= in.cand[x].score
  BY <1>1
<1> QED
  BY <1>2, <1>3 DEF Fitting

(* The cheapest admissible Source of the band around the best one fits. *)
LEMMA CheapestFits ==
    ASSUME NEW in, InputFits(in), NEW U \in SUBSET Compared(in), NEW A \in SUBSET U,
           NEW best \in U, \A y \in U : in.cand[best].score <= in.cand[y].score,
           NEW F, F = Band(in, U, best) \cap A, F # {}
    PROVE  Fitting(in, U, A, ByCost(in, F))
<1> DEFINE x == ByCost(in, F)
           w == 100 + BandTolerance
<1>1. F \in SUBSET Compared(in)
  OBVIOUS
<1>2. x \in F /\ \A y \in F : in.cand[x].cost <= in.cand[y].cost
  BY <1>1, LeastCost
<1> HIDE DEF x
<1>3. x \in A /\ x \in U /\ 100 * in.cand[x].score <= w * in.cand[best].score
  BY <1>2 DEF Band
<1>4. \A y \in U : in.cand[y].score \in Nat /\ in.cand[y].cost \in Nat
  BY DEF InputFits
<1>5. BandTolerance \in Nat
  BY SelectorShape
<1>6. ASSUME NEW y \in U PROVE 100 * in.cand[x].score <= w * in.cand[y].score
  <2> DEFINE s == in.cand[x].score
             t == in.cand[y].score
             b == in.cand[best].score
  <2>1. s \in Nat /\ t \in Nat /\ b \in Nat /\ b <= t /\ 100 * s <= w * b
    BY <1>3, <1>4
  <2> HIDE DEF s, t, b
  <2>2. w * b <= w * t
    BY <2>1, Widened
  <2>3. 100 * s \in Int /\ w * b \in Int /\ w * t \in Int
    BY <1>5, <2>1
  <2>4. 100 * s <= w * t
    <3> HIDE DEF w
    <3> QED
      BY <2>1, <2>2, <2>3
  <2> QED
    BY <2>4 DEF s, t
<1>7. ASSUME NEW y \in A PROVE in.cand[y].score >= in.cand[x].score
                               \/ in.cand[y].cost >= in.cand[x].cost
  <2>1. CASE y \in F
    BY <1>2, <1>3, <1>4, <2>1
  <2>2. CASE y \notin F
    <3> DEFINE s == in.cand[x].score
               t == in.cand[y].score
               b == in.cand[best].score
    <3>1. s \in Nat /\ t \in Nat /\ b \in Nat /\ 100 * s <= w * b /\ ~ (100 * t <= w * b)
      BY <1>3, <1>4, <2>2 DEF Band
    <3> HIDE DEF s, t, b
    <3>2. w * b \in Int
      BY <1>5, <3>1
    <3>3. t >= s
      <4> HIDE DEF w
      <4> QED
        BY <3>1, <3>2
    <3> QED
      BY <3>3 DEF s, t
  <2> QED
    BY <2>1, <2>2
<1> QED
  BY <1>3, <1>6, <1>7 DEF Fitting, x

(* What a decision may be: nothing, or a choice that fits. *)
Decides(in, U, A, result) ==
    /\ result.source # NoChoice => Fitting(in, U, A, result.source)
    /\ result.state # "probing"

(* The economic Sources, and the ones whose Gate-1 plan passed. *)
EconomicOnes(in) == {x \in Compared(in) : Economic(in, x)}
PassedOnes(in, U) == {x \in U : Passed(in, x)}
AdmittedOnes(mode, in, U) == {x \in U : Admits(mode, in, x)}

(* evaluate_checkpoint locks only what fits. *)
LEMMA CheckpointDecides ==
    ASSUME NEW in, InputFits(in), NEW prev, NEW atMax \in BOOLEAN
    PROVE  Decides(in, Compared(in), EconomicOnes(in), EvaluateCheckpoint(atMax, in, prev))
<1> DEFINE C == Compared(in)
           best == ByResidual(in, C)
           final == {x \in Band(in, C, best) : Economic(in, x)}
           result == EvaluateCheckpoint(atMax, in, prev)
<1>1. ASSUME C # {}
      PROVE  best \in C /\ \A y \in C : in.cand[best].score <= in.cand[y].score
  BY <1>1, LeastResidual
<1>2. ASSUME C # {}, Economic(in, best) PROVE Fitting(in, C, EconomicOnes(in), best)
  <2>1. best \in EconomicOnes(in)
    BY <1>1, <1>2 DEF EconomicOnes
  <2>2. EconomicOnes(in) \in SUBSET C
    BY DEF EconomicOnes
  <2> HIDE DEF best
  <2> QED
    BY <1>1, <1>2, <2>1, <2>2, BestFits
<1>3. ASSUME C # {}, final # {} PROVE Fitting(in, C, EconomicOnes(in), ByCost(in, final))
  <2>1. final = Band(in, C, best) \cap EconomicOnes(in)
    BY DEF EconomicOnes, Band
  <2>2. EconomicOnes(in) \in SUBSET C
    BY DEF EconomicOnes
  <2> HIDE DEF final, best
  <2> QED
    BY <1>1, <1>3, <2>1, <2>2, CheapestFits
<1>4. result.state \in {"locked", "abstained", "pending"}
      /\ (result.source = NoChoice
          \/ (C # {} /\ Economic(in, best) /\ result.source = best)
          \/ (C # {} /\ final # {} /\ result.source = ByCost(in, final)))
  BY DEF EvaluateCheckpoint, Result, InputFits
<1> QED
  BY <1>2, <1>3, <1>4 DEF Decides

(* The deep oracle locks only what fits. *)
LEMMA OracleDecides ==
    ASSUME NEW in, InputFits(in)
    PROVE  Decides(in, Compared(in), EconomicOnes(in), DeepOracle(in))
<1> DEFINE C == Compared(in)
           best == ByScore(in, C)
<1>1. ASSUME C # {}, Economic(in, best) PROVE Fitting(in, C, EconomicOnes(in), best)
  <2>1. best \in C /\ \A y \in C : in.cand[best].score <= in.cand[y].score
    BY <1>1, LeastResidual
  <2>2. best \in EconomicOnes(in) /\ EconomicOnes(in) \in SUBSET C
    BY <1>1, <2>1 DEF EconomicOnes
  <2> HIDE DEF best
  <2> QED
    BY <2>1, <2>2, BestFits
<1>2. DeepOracle(in).state # "probing"
      /\ (DeepOracle(in).source = NoChoice
          \/ (C # {} /\ Economic(in, best) /\ DeepOracle(in).source = best))
  BY DEF DeepOracle, Result
<1> QED
  BY <1>1, <1>2 DEF Decides

(* What the staged selectors choose from a set of usable Sources, given    *)
(* which of them are admissible, fits at either depth.                     *)
LEMMA StagedFits ==
    ASSUME NEW in, InputFits(in), NEW U \in SUBSET Compared(in), U # {}, NEW A \in SUBSET U,
           NEW best \in Compared(in),
           \A y \in Compared(in) : in.cand[best].score <= in.cand[y].score
    PROVE  /\ best \in A => Fitting(in, U, A, best)
           /\ LET F == {x \in Band(in, U, ByScore(in, U)) : x \in A}
              IN  F # {} => Fitting(in, U, A, ByCost(in, F))
<1>1. ASSUME best \in A PROVE Fitting(in, U, A, best)
  BY <1>1, BestFits
<1> DEFINE F == {x \in Band(in, U, ByScore(in, U)) : x \in A}
<1>2. ASSUME F # {} PROVE Fitting(in, U, A, ByCost(in, F))
  <2>1. ByScore(in, U) \in U
        /\ \A y \in U : in.cand[ByScore(in, U)].score <= in.cand[y].score
    BY LeastResidual
  <2>2. F = Band(in, U, ByScore(in, U)) \cap A
    BY DEF Band
  <2> HIDE DEF F
  <2> QED
    BY <1>2, <2>1, <2>2, CheapestFits
<1> QED
  BY <1>1, <1>2

(* Schema 8 decides for a Source whose plan passed, or for none. *)
LEMMA Schema8Decides ==
    ASSUME NEW in, InputFits(in), NEW prev, NEW d \in {1, 2}
    PROVE  Decides(in, Compared(in), PassedOnes(in, Compared(in)), Schema8(d, in, prev))
<1> DEFINE C == Compared(in)
           best == ByScore(in, C)
           A == PassedOnes(in, C)
           F == {x \in Band(in, C, best) : x \in A}
           economic == {x \in Band(in, C, best) : Passed(in, x)}
<1>1. economic = F
  BY DEF PassedOnes, Band
<1>2. ASSUME C # {} PROVE /\ best \in C
                          /\ Passed(in, best) => Fitting(in, C, A, best)
                          /\ F # {} => Fitting(in, C, A, ByCost(in, F))
  <2>1. best \in C /\ \A y \in C : in.cand[best].score <= in.cand[y].score
    BY <1>2, LeastResidual
  <2>2. A \in SUBSET C /\ (Passed(in, best) => best \in A)
    BY <2>1 DEF PassedOnes
  <2> HIDE DEF A
  <2> QED
    BY <1>2, <2>1, <2>2, StagedFits
<1>3. Schema8(d, in, prev).state # "probing"
      /\ (Schema8(d, in, prev).source = NoChoice
          \/ (C # {} /\ Passed(in, best) /\ Schema8(d, in, prev).source = best)
          \/ (C # {} /\ economic # {} /\ Schema8(d, in, prev).source = ByCost(in, economic)))
  BY DEF Schema8, Result, GivesUp
<1> HIDE DEF A, F, economic
<1> QED
  BY <1>1, <1>2, <1>3 DEF Decides, A

(* Behind a screen the best Source of all is usable when any Source is. *)
LEMMA ScreenedFits ==
    ASSUME NEW in, InputFits(in), NEW d \in {1, 2}, NEW A \in SUBSET Compatible(in, d),
           Compatible(in, d) # {}
    PROVE  LET fit == Compatible(in, d)
               best == ByScore(in, Compared(in))
               F == {x \in Band(in, fit, ByScore(in, fit)) : x \in A}
           IN  /\ best \in fit
               /\ best \in A => Fitting(in, fit, A, best)
               /\ F # {} => Fitting(in, fit, A, ByCost(in, F))
<1> DEFINE fit == Compatible(in, d)
           best == ByScore(in, Compared(in))
<1>1. fit \in SUBSET Compared(in) /\ \A x \in fit : in.cand[x].score <= Threshold[d]
  BY DEF Compatible
<1>2. best \in Compared(in) /\ \A y \in Compared(in) : in.cand[best].score <= in.cand[y].score
  <2>1. Compared(in) # {}
    BY <1>1
  <2> QED
    BY <2>1, LeastResidual
<1>3. best \in fit
  <2>1. PICK y \in fit : TRUE
    OBVIOUS
  <2>2. y \in Compared(in) /\ in.cand[y].score <= Threshold[d]
    BY <1>1
  <2>3. in.cand[best].score <= in.cand[y].score
    BY <1>2, <2>2
  <2>4. in.cand[best].score \in Nat /\ in.cand[y].score \in Nat /\ Threshold[d] \in Nat
    BY <1>2, <2>2, SelectorShape DEF InputFits
  <2>5. in.cand[best].score <= Threshold[d]
    BY <2>2, <2>3, <2>4
  <2> QED
    BY <1>2, <2>5 DEF Compatible
<1> HIDE DEF fit, best
<1>4. fit # {} /\ A \in SUBSET fit
  BY DEF fit
<1>5. /\ best \in A => Fitting(in, fit, A, best)
      /\ LET F == {x \in Band(in, fit, ByScore(in, fit)) : x \in A}
         IN  F # {} => Fitting(in, fit, A, ByCost(in, F))
  BY <1>1, <1>2, <1>4, StagedFits
<1> QED
  BY <1>3, <1>5 DEF fit, best

(* Schema 9 decides for a Source below its threshold whose plan passed, or *)
(* for none.                                                               *)
LEMMA Schema9Decides ==
    ASSUME NEW in, InputFits(in), NEW prev, NEW d \in {1, 2}
    PROVE  Decides(in, Compatible(in, d), PassedOnes(in, Compatible(in, d)),
                   Schema9(d, in, prev))
<1> DEFINE fit == Compatible(in, d)
           best == ByScore(in, Compared(in))
           A == PassedOnes(in, fit)
           F == {x \in Band(in, fit, ByScore(in, fit)) : x \in A}
           economic == {x \in Band(in, fit, ByScore(in, fit)) : Passed(in, x)}
<1>1. economic = F
  BY DEF PassedOnes, Band
<1>2. ASSUME fit # {} PROVE /\ Passed(in, best) => Fitting(in, fit, A, best)
                            /\ F # {} => Fitting(in, fit, A, ByCost(in, F))
  <2>1. A \in SUBSET fit
    BY DEF PassedOnes
  <2>2. best \in fit /\ (best \in A => Fitting(in, fit, A, best))
        /\ (F # {} => Fitting(in, fit, A, ByCost(in, F)))
    <3> HIDE DEF A
    <3> QED
      BY <1>2, <2>1, ScreenedFits
  <2>3. Passed(in, best) => best \in A
    BY <2>2 DEF PassedOnes
  <2> HIDE DEF A, F, best, fit
  <2> QED
    BY <2>2, <2>3
<1>3. Schema9(d, in, prev).state # "probing"
      /\ (Schema9(d, in, prev).source = NoChoice
          \/ (fit # {} /\ Passed(in, best) /\ Schema9(d, in, prev).source = best)
          \/ (fit # {} /\ economic # {} /\ Schema9(d, in, prev).source = ByCost(in, economic)))
  BY DEF Schema9, Result, GivesUp
<1> HIDE DEF A, F, economic, fit, best
<1> QED
  BY <1>1, <1>2, <1>3 DEF Decides, A, fit

(* Schema 10 decides for a Source below its threshold that its mode        *)
(* admits, or for none.                                                    *)
LEMMA Schema10Decides ==
    ASSUME NEW in, InputFits(in), NEW prev, NEW d \in {1, 2}, NEW mode
    PROVE  Decides(in, Compatible(in, d), AdmittedOnes(mode, in, Compatible(in, d)),
                   Schema10(mode, d, in, prev))
<1> DEFINE fit == Compatible(in, d)
           best == ByScore(in, Compared(in))
           A == AdmittedOnes(mode, in, fit)
           F == {x \in Band(in, fit, ByScore(in, fit)) : x \in A}
           eligible == {x \in Band(in, fit, ByScore(in, fit)) : Admits(mode, in, x)}
<1>1. eligible = F
  BY DEF AdmittedOnes, Band
<1>2. ASSUME fit # {} PROVE /\ Admits(mode, in, best) => Fitting(in, fit, A, best)
                            /\ F # {} => Fitting(in, fit, A, ByCost(in, F))
  <2>1. A \in SUBSET fit
    BY DEF AdmittedOnes
  <2>2. best \in fit /\ (best \in A => Fitting(in, fit, A, best))
        /\ (F # {} => Fitting(in, fit, A, ByCost(in, F)))
    <3> HIDE DEF A
    <3> QED
      BY <1>2, <2>1, ScreenedFits
  <2>3. Admits(mode, in, best) => best \in A
    BY <2>2 DEF AdmittedOnes
  <2> HIDE DEF A, F, best, fit
  <2> QED
    BY <2>2, <2>3
<1>3. Schema10(mode, d, in, prev).state # "probing"
      /\ (Schema10(mode, d, in, prev).source = NoChoice
          \/ (fit # {} /\ Admits(mode, in, best) /\ Schema10(mode, d, in, prev).source = best)
          \/ (fit # {} /\ eligible # {}
              /\ Schema10(mode, d, in, prev).source = ByCost(in, eligible)))
  BY DEF Schema10, Result, GivesUp
<1> HIDE DEF A, F, eligible, fit, best
<1> QED
  BY <1>1, <1>2, <1>3 DEF Decides, A, fit

-----------------------------------------------------------------------------
(* The invariant of a selection: what it has decided, it decided by its    *)
(* rules from the input it still shows, and a staged one never goes beyond *)
(* depth 2.                                                                *)
SelectionFits ==
    /\ selector \in Selectors
    /\ selector \in Staged => depth \in {1, 2}
    /\ IF outcome.state = "probing" THEN outcome.source = NoChoice
       ELSE /\ input \in Inputs(selector)
            /\ outcome = DecideBy(selector, depth, input, previous)

(* A selection starts probing. *)
LEMMA SelectionBegins == SelectionInit => SelectionFits
<1> SUFFICES ASSUME NEW x \in Selectors, SelectionStarts(x) PROVE SelectionFits
  BY DEF SelectionInit
<1>1. selector = x /\ outcome.state = "probing" /\ outcome.source = NoChoice
      /\ depth = IF x = "s7_oracle" THEN Deepest(x) ELSE Shallowest(x)
  BY DEF SelectionStarts, Result
<1>2. ASSUME x \in Staged PROVE depth \in {1, 2}
  <2>1. CheckpointsOf(x) = {1, 2} /\ x # "s7_oracle"
    BY <1>2 DEF CheckpointsOf, Staged
  <2>2. \E d \in CheckpointsOf(x) : \A e \in CheckpointsOf(x) : d <= e
    BY <2>1
  <2>3. Shallowest(x) \in CheckpointsOf(x)
    BY <2>2, Zenon DEF Shallowest
  <2> QED
    BY <1>1, <2>1, <2>3
<1> QED
  BY <1>1, <1>2 DEF SelectionFits

(* A staged selector that has not decided at its depth is at depth 1. *)
LEMMA OpenIsShallow ==
    ASSUME SelectionFits, selector \in Staged, outcome.state \in Open
    PROVE  depth = 1
<1>1. depth \in {1, 2} /\ outcome = DecideBy(selector, depth, input, previous)
      /\ selector \in {"s8", "s9", "s10_barrier", "s10_advisory"}
  BY DEF SelectionFits, Open, Staged
<1>2. outcome.state = "pending" \/ outcome.state = "continue_probe"
  BY DEF Open
<1>3. CASE selector = "s8"
  <2>1. outcome = Schema8(depth, input, previous)
    BY <1>1, <1>3 DEF DecideBy
  <2> QED
    BY <1>1, <1>2, <2>1 DEF Schema8, GivesUp, Result
<1>4. CASE selector = "s9"
  <2>1. outcome = Schema9(depth, input, previous)
    BY <1>1, <1>4 DEF DecideBy
  <2> QED
    BY <1>1, <1>2, <2>1 DEF Schema9, GivesUp, Result
<1>5. CASE selector \in {"s10_barrier", "s10_advisory"}
  <2>1. outcome = Schema10(selector, depth, input, previous)
    BY <1>1, <1>5 DEF DecideBy
  <2> QED
    BY <1>1, <1>2, <2>1 DEF Schema10, GivesUp, Result
<1> QED
  BY <1>1, <1>3, <1>4, <1>5

(* What decides, decides. *)
LEMMA DecisionEnds ==
    ASSUME NEW x \in Selectors, NEW in, InputFits(in), NEW prev, NEW d, x \in Staged => d \in {1, 2}
    PROVE  DecideBy(x, d, in, prev).state # "probing"
<1>1. CASE x \in {"v5", "s7"}
  <2> DEFINE atMax == d = Deepest(x)
  <2>1. DecideBy(x, d, in, prev) = EvaluateCheckpoint(atMax, in, prev)
    BY <1>1 DEF DecideBy
  <2>2. atMax \in BOOLEAN
    OBVIOUS
  <2> HIDE DEF atMax
  <2> QED
    BY <2>1, <2>2, CheckpointDecides DEF Decides
<1>2. CASE x = "s7_oracle"
  <2>1. DecideBy(x, d, in, prev) = DeepOracle(in)
    BY <1>2 DEF DecideBy
  <2> QED
    BY <2>1, OracleDecides DEF Decides
<1>3. CASE x = "s8"
  <2>1. DecideBy(x, d, in, prev) = Schema8(d, in, prev) /\ d \in {1, 2}
    BY <1>3 DEF DecideBy, Staged
  <2> QED
    BY <2>1, Schema8Decides DEF Decides
<1>4. CASE x = "s9"
  <2>1. DecideBy(x, d, in, prev) = Schema9(d, in, prev) /\ d \in {1, 2}
    BY <1>4 DEF DecideBy, Staged
  <2> QED
    BY <2>1, Schema9Decides DEF Decides
<1>5. CASE x \in {"s10_barrier", "s10_advisory"}
  <2>1. DecideBy(x, d, in, prev) = Schema10(x, d, in, prev) /\ d \in {1, 2}
    BY <1>5 DEF DecideBy, Staged
  <2> QED
    BY <2>1, Schema10Decides DEF Decides
<1> QED
  BY <1>1, <1>2, <1>3, <1>4, <1>5 DEF Selectors

(* Comparing and going deeper keep the invariant. *)
LEMMA SelectionKept == SelectionFits /\ [SelectionNext]_selectionVars => SelectionFits'
<1> SUFFICES ASSUME SelectionFits, [SelectionNext]_selectionVars PROVE SelectionFits'
  OBVIOUS
<1>1. CASE UNCHANGED selectionVars
  BY <1>1 DEF selectionVars, SelectionFits
<1>2. CASE Compare
  <2>1. /\ input' \in Inputs(selector) /\ outcome' = DecideBy(selector, depth, input', previous)
        /\ UNCHANGED <<selector, depth, previous>>
    BY <1>2 DEF Compare
  <2>2. outcome'.state # "probing"
    BY <2>1, InputsFit, DecisionEnds DEF SelectionFits
  <2> QED
    BY <2>1, <2>2 DEF SelectionFits
<1>3. CASE Deepen
  <2>1. /\ outcome.state \in Open /\ selector' = selector
        /\ outcome' = Result("probing", NoChoice, "none")
        /\ depth' = CHOOSE d \in CheckpointsOf(selector) :
                  /\ d > depth
                  /\ \A e \in CheckpointsOf(selector) : e > depth => d <= e
    BY <1>3 DEF Deepen
  <2>2. ASSUME selector \in Staged PROVE depth' \in {1, 2}
    <3>1. CheckpointsOf(selector) = {1, 2} /\ depth = 1
      BY <2>1, <2>2, OpenIsShallow DEF CheckpointsOf
    <3>2. \E d \in CheckpointsOf(selector) :
                  /\ d > depth
                  /\ \A e \in CheckpointsOf(selector) : e > depth => d <= e
      BY <3>1
    <3>3. depth' \in CheckpointsOf(selector)
      BY <2>1, <3>2, Zenon
    <3> QED
      BY <3>1, <3>3
  <2>3. outcome'.state = "probing" /\ outcome'.source = NoChoice
    BY <2>1 DEF Result
  <2> QED
    BY <2>1, <2>2, <2>3 DEF SelectionFits
<1> QED
  BY <1>1, <1>2, <1>3 DEF SelectionNext

(* What a selector may use, and what is admissible among it. *)
UsableOf(x, in, d) == IF x \in {"s9", "s10_barrier", "s10_advisory"}
                      THEN Compatible(in, d) ELSE Compared(in)
AdmissibleOf(x, in, d) ==
    IF x = "s10_advisory" THEN {y \in Compatible(in, d) : Planned(in, y)}
    ELSE IF x \in Staged THEN PassedOnes(in, UsableOf(x, in, d)) ELSE EconomicOnes(in)

(* Every selector decides for what fits among what it may use, or for      *)
(* none.                                                                   *)
LEMMA DecisionFits ==
    ASSUME NEW x \in Selectors, NEW in, InputFits(in), NEW prev, NEW d, x \in Staged => d \in {1, 2}
    PROVE  Decides(in, UsableOf(x, in, d), AdmissibleOf(x, in, d), DecideBy(x, d, in, prev))
<1>1. CASE x \in {"v5", "s7"}
  <2> DEFINE atMax == d = Deepest(x)
  <2>1. DecideBy(x, d, in, prev) = EvaluateCheckpoint(atMax, in, prev)
    BY <1>1 DEF DecideBy
  <2>2. atMax \in BOOLEAN
    OBVIOUS
  <2>3. UsableOf(x, in, d) = Compared(in) /\ AdmissibleOf(x, in, d) = EconomicOnes(in)
    BY <1>1 DEF UsableOf, AdmissibleOf, Staged
  <2> HIDE DEF atMax
  <2> QED
    BY <2>1, <2>2, <2>3, CheckpointDecides
<1>2. CASE x = "s7_oracle"
  <2>1. DecideBy(x, d, in, prev) = DeepOracle(in)
    BY <1>2 DEF DecideBy
  <2>2. UsableOf(x, in, d) = Compared(in) /\ AdmissibleOf(x, in, d) = EconomicOnes(in)
    BY <1>2 DEF UsableOf, AdmissibleOf, Staged
  <2> QED
    BY <2>1, <2>2, OracleDecides
<1>3. CASE x = "s8"
  <2>1. DecideBy(x, d, in, prev) = Schema8(d, in, prev) /\ d \in {1, 2}
    BY <1>3 DEF DecideBy, Staged
  <2>2. /\ UsableOf(x, in, d) = Compared(in)
        /\ AdmissibleOf(x, in, d) = PassedOnes(in, Compared(in))
    BY <1>3 DEF UsableOf, AdmissibleOf, Staged
  <2> QED
    BY <2>1, <2>2, Schema8Decides
<1>4. CASE x = "s9"
  <2>1. DecideBy(x, d, in, prev) = Schema9(d, in, prev) /\ d \in {1, 2}
    BY <1>4 DEF DecideBy, Staged
  <2>2. /\ UsableOf(x, in, d) = Compatible(in, d)
        /\ AdmissibleOf(x, in, d) = PassedOnes(in, Compatible(in, d))
    BY <1>4 DEF UsableOf, AdmissibleOf, Staged
  <2> QED
    BY <2>1, <2>2, Schema9Decides
<1>5. CASE x \in {"s10_barrier", "s10_advisory"}
  <2>1. DecideBy(x, d, in, prev) = Schema10(x, d, in, prev) /\ d \in {1, 2}
    BY <1>5 DEF DecideBy, Staged
  <2>2. UsableOf(x, in, d) = Compatible(in, d)
    BY <1>5 DEF UsableOf
  <2>3. AdmissibleOf(x, in, d) = AdmittedOnes(x, in, Compatible(in, d))
    <3>1. \A y : Admits(x, in, y) <=> IF x = "s10_advisory" THEN Planned(in, y) ELSE Passed(in, y)
      BY DEF Admits, Planned, Passed
    <3>2. CASE x = "s10_advisory"
      BY <3>1, <3>2 DEF AdmissibleOf, AdmittedOnes
    <3>3. CASE x = "s10_barrier"
      BY <2>2, <3>1, <3>3 DEF AdmissibleOf, AdmittedOnes, PassedOnes, Staged
    <3> QED
      BY <1>5, <3>2, <3>3
  <2> QED
    BY <2>1, <2>2, <2>3, Schema10Decides
<1> QED
  BY <1>1, <1>2, <1>3, <1>4, <1>5 DEF Selectors

(* In the words of the run's property, the same sets. *)
LEMMA ScopesAre ==
    ASSUME SelectionFits
    PROVE  /\ {y \in Compared(input) : Screened(y)} = UsableOf(selector, input, depth)
           /\ {y \in UsableOf(selector, input, depth) : Admissible(y)}
                = AdmissibleOf(selector, input, depth)
<1>1. {y \in Compared(input) : Screened(y)} = UsableOf(selector, input, depth)
  BY DEF Screened, UsableOf, Compatible
<1>2. \A y \in Compared(input) : Screened(y) <=> y \in UsableOf(selector, input, depth)
  BY <1>1
<1>3. UsableOf(selector, input, depth) \subseteq Compared(input)
  BY <1>1
<1>4. CASE selector = "s10_advisory"
  BY <1>2, <1>3, <1>4 DEF Admissible, AdmissibleOf, UsableOf
<1>5. CASE selector # "s10_advisory" /\ selector \in Staged
  BY <1>2, <1>3, <1>5 DEF Admissible, AdmissibleOf, PassedOnes
<1>6. CASE selector \notin Staged
  <2>1. UsableOf(selector, input, depth) = Compared(input) /\ selector # "s10_advisory"
    BY <1>6 DEF UsableOf, Staged
  <2> QED
    BY <1>2, <1>6, <2>1 DEF Admissible, AdmissibleOf, EconomicOnes
<1> QED
  BY <1>1, <1>4, <1>5, <1>6

(* The invariant justifies the choice. *)
LEMMA FitsJustified == ASSUME SelectionFits PROVE ChoiceJustified
<1> SUFFICES ASSUME outcome.source # NoChoice
             PROVE  LET x == outcome.source
                        usable == {y \in Compared(input) : Screened(y)}
                    IN  /\ x \in usable /\ Admissible(x)
                        /\ \A y \in usable :
                             100 * input.cand[x].score <= (100 + BandTolerance) * input.cand[y].score
                        /\ \A y \in usable : Admissible(y) =>
                             \/ input.cand[y].score >= input.cand[x].score
                             \/ input.cand[y].cost >= input.cand[x].cost
  BY DEF ChoiceJustified
<1> DEFINE U == UsableOf(selector, input, depth)
           A == AdmissibleOf(selector, input, depth)
<1>1. input \in Inputs(selector) /\ outcome = DecideBy(selector, depth, input, previous)
      /\ selector \in Selectors /\ (selector \in Staged => depth \in {1, 2})
  BY DEF SelectionFits
<1>2. Decides(input, U, A, outcome)
  BY <1>1, InputsFit, DecisionFits
<1>3. Fitting(input, U, A, outcome.source)
  BY <1>2 DEF Decides
<1>4. {y \in Compared(input) : Screened(y)} = U /\ {y \in U : Admissible(y)} = A
  BY ScopesAre
<1> HIDE DEF U, A
<1> QED
  BY <1>3, <1>4 DEF Fitting

(* Whatever selector a request is configured with, and whatever it is      *)
(* given to compare, the Source it chooses passed its gates, is in the     *)
(* residual band, and no admissible one is better in both respects.        *)
THEOREM ChoicesAreJustified == SelectionSpec => []ChoiceJustified
<1>1. SelectionFits => ChoiceJustified
  BY FitsJustified
<1> QED
  BY <1>1, SelectionBegins, SelectionKept, PTL DEF SelectionSpec

-----------------------------------------------------------------------------
(* The revisions of the staged selector decide alike where they are meant  *)
(* to, on every input.                                                     *)
LEMMA RevisionsAlike ==
    ASSUME NEW in, NEW prev, NEW d \in {1, 2}
    PROVE  LET eight == Schema8(d, in, prev)
               nine  == Schema9(d, in, prev)
               ten   == Schema10("s10_barrier", d, in, prev)
           IN  /\ ten.state = nine.state /\ ten.source = nine.source
               /\ Compatible(in, d) = Compared(in)
                    => nine.state = eight.state /\ nine.source = eight.source
               /\ nine.reason = "materialize" <=> ten.reason = "materialize"
<1> DEFINE eight == Schema8(d, in, prev)
           nine  == Schema9(d, in, prev)
           ten   == Schema10("s10_barrier", d, in, prev)
           fit == Compatible(in, d)
           C == Compared(in)
<1>1. \A y : Admits("s10_barrier", in, y) <=> Passed(in, y)
  BY DEF Admits
<1>2. fit \subseteq C
  BY DEF Compatible
<1>3. {x \in Band(in, fit, ByScore(in, fit)) : Admits("s10_barrier", in, x)}
        = {x \in Band(in, fit, ByScore(in, fit)) : Passed(in, x)}
  BY <1>1
<1> DEFINE economic == {x \in Band(in, fit, ByScore(in, fit)) : Passed(in, x)}
<1>4. ten = IF C = {}
            THEN GivesUp(d, IF d = 2 /\ in.eligible = 0 THEN "content_miss" ELSE "miss")
            ELSE IF ShortRanking(in)
            THEN GivesUp(d, IF d = 2 THEN "explore_truncated" ELSE "insufficient_ranking_coverage")
            ELSE IF fit = {}
            THEN GivesUp(d, IF d = 2 THEN IF ScopeComplete(in) THEN "materialize"
                                          ELSE "explore_truncated" ELSE "incompatible")
            ELSE IF d = 1
            THEN IF Decisive(in, C, ByScore(in, C), prev) /\ Passed(in, ByScore(in, C))
                 THEN Result("decision_ready", ByScore(in, C), "d1")
                 ELSE GivesUp(1, "d1_not_decisive")
            ELSE IF economic = {} THEN GivesUp(2, "no_preparation_candidate")
            ELSE Result("decision_ready", ByCost(in, economic), "d2")
  BY <1>1, <1>3 DEF Schema10
<1>5. nine = IF ShortRanking(in) THEN GivesUp(d, "insufficient_ranking_coverage")
             ELSE IF C = {} THEN GivesUp(d, "miss")
             ELSE IF fit = {}
             THEN GivesUp(d, IF d = 2 /\ ScopeComplete(in) THEN "materialize" ELSE "incompatible")
             ELSE IF d = 1
             THEN IF Decisive(in, C, ByScore(in, C), prev) /\ Passed(in, ByScore(in, C))
                  THEN Result("decision_ready", ByScore(in, C), "d1")
                  ELSE GivesUp(1, "d1_not_decisive")
             ELSE IF economic = {} THEN GivesUp(2, "no_economic_source")
             ELSE Result("decision_ready", ByCost(in, economic), "d2")
  BY DEF Schema9
<1>6. ASSUME fit = C
      PROVE  eight = IF ShortRanking(in) THEN GivesUp(d, "insufficient_ranking_coverage")
                     ELSE IF C = {} THEN GivesUp(d, "miss")
                     ELSE IF d = 1
                     THEN IF Decisive(in, C, ByScore(in, C), prev) /\ Passed(in, ByScore(in, C))
                          THEN Result("decision_ready", ByScore(in, C), "d1")
                          ELSE GivesUp(1, "d1_not_decisive")
                     ELSE IF economic = {} THEN GivesUp(2, "no_economic_source")
                     ELSE Result("decision_ready", ByCost(in, economic), "d2")
  BY <1>6 DEF Schema8
<1> HIDE DEF eight, nine, ten, fit, C, economic
<1>7. ten.state = nine.state /\ ten.source = nine.source
  BY <1>4, <1>5 DEF GivesUp, Result
<1>8. nine.reason = "materialize" <=> ten.reason = "materialize"
  BY <1>4, <1>5 DEF GivesUp, Result
<1>9. ASSUME fit = C PROVE nine.state = eight.state /\ nine.source = eight.source
  BY <1>5, <1>6, <1>9 DEF GivesUp, Result
<1> QED
  BY <1>7, <1>8, <1>9 DEF eight, nine, ten, fit, C

(* The cheapest of a set is the cheapest of any part that holds it. *)
LEMMA CheapestOfPart ==
    ASSUME NEW in, InputFits(in), NEW S \in SUBSET Compared(in), NEW T \in SUBSET S,
           S # {}, ByCost(in, S) \in T
    PROVE  ByCost(in, T) = ByCost(in, S)
<1> DEFINE x == ByCost(in, S)
           y == ByCost(in, T)
<1>1. SUFFICES ASSUME x # y PROVE FALSE
  OBVIOUS
<1>2. T # {} /\ T \in SUBSET Compared(in)
  OBVIOUS
<1>3. x \in T /\ y \in T /\ x \in S /\ y \in S
  BY <1>2, LeastCost
<1>4. Less3(in.cand[x].cost, in.cand[x].score, x, in.cand[y].cost, in.cand[y].score, y)
  <2>1. \A z \in S \ {x} : Less3(in.cand[x].cost, in.cand[x].score, x,
                                 in.cand[z].cost, in.cand[z].score, z)
    BY LeastCost
  <2> HIDE DEF x, y
  <2> QED
    BY <1>1, <1>3, <2>1
<1>5. Less3(in.cand[y].cost, in.cand[y].score, y, in.cand[x].cost, in.cand[x].score, x)
  <2>1. \A z \in T \ {y} : Less3(in.cand[y].cost, in.cand[y].score, y,
                                 in.cand[z].cost, in.cand[z].score, z)
    BY <1>2, LeastCost
  <2> HIDE DEF x, y
  <2> QED
    BY <1>1, <1>3, <2>1
<1>6. /\ in.cand[x].cost \in Nat /\ in.cand[x].score \in Nat /\ x \in Nat
      /\ in.cand[y].cost \in Nat /\ in.cand[y].score \in Nat /\ y \in Nat
  BY <1>3 DEF InputFits
<1> HIDE DEF x, y
<1> QED
  BY <1>4, <1>5, <1>6 DEF Less3

(* What evaluate_checkpoint locks is what the trace proposed, save for a   *)
(* winner by a margin at the last depth.                                   *)
LEMMA ProposalLocked ==
    ASSUME NEW in, InputFits(in), NEW prev, NEW atMax \in BOOLEAN,
           EvaluateCheckpoint(atMax, in, prev).state = "locked"
    PROVE  \/ Proposal(atMax, in, prev) = EvaluateCheckpoint(atMax, in, prev).source
           \/ atMax /\ EvaluateCheckpoint(atMax, in, prev).reason \in {"strong", "stable"}
<1> DEFINE C == Compared(in)
           best == ByResidual(in, C)
           band == Band(in, C, best)
           final == {x \in band : Economic(in, x)}
           result == EvaluateCheckpoint(atMax, in, prev)
           wins == Economic(in, best) /\ WinsBy(in, C, best, EtaStrong)
           stays == Economic(in, best) /\ prev = best /\ WinsBy(in, C, best, Eta)
<1>1. in.eligible \in Nat /\ Cardinality(C) \in Nat /\ (C # {} => Cardinality(C) # 0)
  BY FS_CardinalityType, FS_EmptySet DEF InputFits
<1>2. C # {} /\ in.eligible # 0
      /\ (in.eligible = 1 => result.source = best)
      /\ (in.eligible # 1 =>
            /\ in.eligible > 1 /\ Cardinality(C) # 1
            /\ \/ wins /\ result = Result("locked", best, "strong")
               \/ stays /\ result = Result("locked", best, "stable")
               \/ atMax /\ final # {} /\ result = Result("locked", ByCost(in, final), "max_depth"))
  BY <1>1 DEF EvaluateCheckpoint, Result
<1>3. CASE in.eligible = 1
  <2>1. Proposal(atMax, in, prev) = best
    BY <1>2, <1>3 DEF Proposal
  <2> QED
    BY <1>2, <1>3, <2>1
<1>4. CASE in.eligible # 1
  <2>1. in.eligible > 1 /\ Cardinality(C) > 1
    BY <1>1, <1>2, <1>4
  <2>2. Proposal(atMax, in, prev) =
          IF atMax THEN ByCost(in, band)
          ELSE IF WinsBy(in, C, best, EtaStrong) \/ (prev = best /\ WinsBy(in, C, best, Eta))
               THEN best ELSE NoChoice
    BY <1>1, <2>1 DEF Proposal
  <2>3. CASE wins /\ result = Result("locked", best, "strong")
    <3> HIDE DEF result, best, band, C
    <3> QED
      BY <2>2, <2>3 DEF Result, result
  <2>4. CASE stays /\ result = Result("locked", best, "stable")
    <3> HIDE DEF result, best, band, C
    <3> QED
      BY <2>2, <2>4 DEF Result, result
  <2>5. CASE atMax /\ final # {} /\ result = Result("locked", ByCost(in, final), "max_depth")
    <3>1. band \in SUBSET C /\ final \in SUBSET band /\ band # {}
      BY <2>5 DEF Band
    <3>2. ByCost(in, band) \in band
          /\ \A y \in band : in.cand[ByCost(in, band)].cost <= in.cand[y].cost
      <4> HIDE DEF band
      <4> QED
        BY <3>1, LeastCost
    <3>3. ByCost(in, band) \in final
      <4>1. PICK y \in band : in.cand[y].cost <= EconomicMs
        BY <2>5 DEF Economic
      <4>2. in.cand[ByCost(in, band)].cost <= in.cand[y].cost
        BY <3>2
      <4>3. in.cand[ByCost(in, band)].cost \in Nat /\ in.cand[y].cost \in Nat
            /\ EconomicMs \in Nat
        <5> HIDE DEF band
        <5> QED
          BY <3>1, <3>2, SelectorShape DEF InputFits
      <4>4. in.cand[ByCost(in, band)].cost <= EconomicMs
        BY <4>1, <4>2, <4>3
      <4> HIDE DEF band
      <4> QED
        BY <3>2, <4>4 DEF Economic
    <3>4. ByCost(in, final) = ByCost(in, band)
      <4> HIDE DEF band, final
      <4> QED
        BY <3>1, <3>3, CheapestOfPart
    <3>5. Proposal(atMax, in, prev) = ByCost(in, band)
      <4> HIDE DEF band, best, C
      <4> QED
        BY <2>2, <2>5
    <3>6. result.source = ByCost(in, final)
      <4> HIDE DEF result, final
      <4> QED
        BY <2>5 DEF Result
    <3> HIDE DEF band, final
    <3> QED
      BY <3>4, <3>5, <3>6
  <2> QED
    BY <1>2, <1>4, <2>3, <2>4, <2>5
<1> QED
  BY <1>3, <1>4

(* The invariant makes the decisions agree. *)
LEMMA FitsAgree == ASSUME SelectionFits PROVE DecisionsAgree
<1>1. RevisionsAgree
  <2> SUFFICES ASSUME selector \in Staged, outcome.state # "probing"
               PROVE  RevisionsAgree
    BY DEF RevisionsAgree
  <2>1. depth \in {1, 2}
    BY DEF SelectionFits
  <2> QED
    BY <2>1, RevisionsAlike DEF RevisionsAgree
<1>2. TraceAgrees
  <2> SUFFICES ASSUME selector = "v5", outcome.state = "locked"
               PROVE  \/ Proposal(depth = Deepest("v5"), input, previous) = outcome.source
                      \/ depth = Deepest("v5") /\ outcome.reason \in {"strong", "stable"}
    BY DEF TraceAgrees
  <2> DEFINE atMax == depth = Deepest("v5")
  <2>1. InputFits(input) /\ outcome = EvaluateCheckpoint(atMax, input, previous)
    BY InputsFit DEF SelectionFits, DecideBy
  <2>2. atMax \in BOOLEAN
    OBVIOUS
  <2> HIDE DEF atMax
  <2>3. \/ Proposal(atMax, input, previous) = outcome.source
        \/ atMax /\ outcome.reason \in {"strong", "stable"}
    BY <2>1, <2>2, ProposalLocked
  <2> QED
    BY <2>3 DEF atMax
<1> QED
  BY <1>1, <1>2 DEF DecisionsAgree

(* Schema 10 behind its barrier chooses as schema 9, schema 9 without a    *)
(* threshold as schema 8, and what the trace froze is what it proposed.    *)
THEOREM SelectorsAgree == SelectionSpec => []DecisionsAgree
<1>1. SelectionFits => DecisionsAgree
  BY FitsAgree
<1> QED
  BY <1>1, SelectionBegins, SelectionKept, PTL DEF SelectionSpec

-----------------------------------------------------------------------------
(***************************************************************************)
(* The joint planners.                                                     *)
(***************************************************************************)
(* A problem, and what a problem posed looks like.                         *)
Problems == [kind : Planners, saved : [Considered -> Int], bytes : [Considered -> Nat],
             flag : [Considered -> BOOLEAN], excess : Int, limit : Nat]

(* Its segments are finitely many, and their numbers are numbers.          *)
LEMMA ProblemFits ==
    ASSUME NEW p \in Problems
    PROVE  /\ IsFiniteSet(Considered) /\ Considered \subseteq Nat
           /\ \A i \in Considered : p.saved[i] \in Int /\ p.bytes[i] \in Nat
           /\ p.excess \in Int /\ p.limit \in Int
           /\ Flagged(p) \subseteq Considered /\ Saves(p) \subseteq Considered
<1>1. IsFiniteSet(Considered) /\ Considered \subseteq Nat
  BY PlannerShape, FS_Interval DEF Considered
<1>2. Flagged(p) \subseteq Considered /\ Saves(p) \subseteq Considered
  BY DEF Flagged, Saves
<1> HIDE DEF Considered
<1> QED BY <1>1, <1>2 DEF Problems

(* What a plan saves and what it holds are sums over its segments.         *)
LEMMA SavingIs == ASSUME NEW p, NEW S
                  PROVE  Saving(p, S) = SumOver(p.saved, S) /\ HbmBytes(p, S) = SumOver(p.bytes, S)
  BY DEF Saving, HbmBytes, SumOver

(* A plan taken apart: what its parts save and hold adds up.               *)
LEMMA PlanParts ==
    ASSUME NEW p \in Problems, NEW S \in SUBSET Considered, NEW T, T \subseteq S
    PROVE  /\ Saving(p, S) = Saving(p, S \ T) + Saving(p, T)
           /\ Saving(p, S) \in Int /\ Saving(p, S \ T) \in Int /\ Saving(p, T) \in Int
           /\ HbmBytes(p, S) = HbmBytes(p, S \ T) + HbmBytes(p, T)
           /\ HbmBytes(p, S) \in Nat /\ HbmBytes(p, S \ T) \in Nat /\ HbmBytes(p, T) \in Nat
<1>1. IsFiniteSet(S) /\ \A i \in S : p.saved[i] \in Int /\ p.bytes[i] \in Nat
  BY ProblemFits, FS_Subset
<1>2. /\ SumOver(p.saved, S) = SumOver(p.saved, S \ T) + SumOver(p.saved, T)
      /\ SumOver(p.saved, S \ T) \in Int /\ SumOver(p.saved, T) \in Int
  BY <1>1, SumSplit
<1>3. /\ SumOver(p.bytes, S) = SumOver(p.bytes, S \ T) + SumOver(p.bytes, T)
      /\ SumOver(p.bytes, S \ T) \in Nat /\ SumOver(p.bytes, T) \in Nat
  BY <1>1, SumApart
<1> QED BY <1>2, <1>3, SavingIs

(* A larger plan holds no fewer bytes, and saves more when what it adds    *)
(* saves.                                                                  *)
LEMMA LargerPlan ==
    ASSUME NEW p \in Problems, NEW S \in SUBSET Considered, NEW T, T \subseteq S
    PROVE  /\ HbmBytes(p, T) <= HbmBytes(p, S)
           /\ S \ T \subseteq Saves(p) => Saving(p, T) <= Saving(p, S)
<1> DEFINE U == S \ T
<1>1. U \subseteq S /\ S \ U = T /\ U \in SUBSET Considered
  OBVIOUS
<1> HIDE DEF U
<1>2. /\ Saving(p, S) = Saving(p, T) + Saving(p, U) /\ Saving(p, T) \in Int
      /\ HbmBytes(p, S) = HbmBytes(p, T) + HbmBytes(p, U)
      /\ HbmBytes(p, T) \in Nat /\ HbmBytes(p, U) \in Nat
  BY <1>1, PlanParts
<1>3. ASSUME U \subseteq Saves(p) PROVE Saving(p, U) \in Nat
  <2>1. IsFiniteSet(U) /\ \A i \in U : p.saved[i] \in Int
    BY <1>1, ProblemFits, FS_Subset
  <2>2. \A i \in U : p.saved[i] \in Nat
    BY <1>3, <2>1 DEF Saves
  <2> QED BY <2>1, <2>2, SumNat, SavingIs
<1> QED BY <1>2, <1>3 DEF U

(* Segments are ordered by what they save, ties by id: some segment saves  *)
(* least and some segment comes last in the order of falling saving.       *)
LEMMA LastOnes ==
    ASSUME NEW p \in Problems, NEW S \in SUBSET Considered, S # {}
    PROVE  /\ \E i \in S : \A j \in S \ {i} : SavesLess(p, i, j)
           /\ \E i \in S : \A j \in S \ {i} : SavesMore(p, j, i)
<1> DEFINE F == {s \in SUBSET S : s = {} \/ /\ \E i \in s : \A j \in s \ {i} : SavesLess(p, i, j)
                                            /\ \E i \in s : \A j \in s \ {i} : SavesMore(p, j, i)}
<1>0. IsFiniteSet(S) /\ S \subseteq Nat /\ \A i \in S : p.saved[i] \in Int
  BY ProblemFits, FS_Subset
<1>1. {} \in F
  OBVIOUS
<1>2. ASSUME NEW s \in SUBSET S, s # {}, \A x \in s : s \ {x} \in F PROVE s \in F
  <2>1. PICK x \in s : TRUE
    BY <1>2
  <2> DEFINE r == s \ {x}
  <2>2. CASE r = {}
    BY <2>1, <2>2
  <2>3. CASE r # {}
    <3>0. \A i \in s : i \in Nat /\ p.saved[i] \in Int
      BY <1>0
    <3>1. PICK v \in r : \A j \in r \ {v} : SavesLess(p, v, j)
      BY <1>2, <2>1, <2>3
    <3>2. PICK w \in r : \A j \in r \ {w} : SavesMore(p, j, w)
      BY <1>2, <2>1, <2>3
    <3>3. \E i \in s : \A j \in s \ {i} : SavesLess(p, i, j)
      <4>1. CASE SavesLess(p, v, x)
        BY <2>1, <3>1, <4>1
      <4>2. CASE ~SavesLess(p, v, x)
        <5>1. \A j \in s \ {x} : SavesLess(p, x, j)
          BY <2>1, <3>0, <3>1, <4>2 DEF SavesLess
        <5> QED BY <2>1, <5>1
      <4> QED BY <4>1, <4>2
    <3>4. \E i \in s : \A j \in s \ {i} : SavesMore(p, j, i)
      <4>1. CASE SavesMore(p, x, w)
        BY <2>1, <3>2, <4>1
      <4>2. CASE ~SavesMore(p, x, w)
        <5>1. \A j \in s \ {x} : SavesMore(p, j, x)
          BY <2>1, <3>0, <3>2, <4>2 DEF SavesMore
        <5> QED BY <2>1, <5>1
      <4> QED BY <4>1, <4>2
    <3> QED BY <3>3, <3>4
  <2> QED BY <2>2, <2>3
<1> HIDE DEF F
<1>3. S \in F
  BY <1>0, <1>1, <1>2, SubsetInduction
<1> QED BY <1>3 DEF F

(* The greedy loop comes to an end: what it takes exists.                  *)
LEMMA GreedyTakes ==
    ASSUME NEW p \in Problems, NEW todo \in SUBSET Considered, NEW taken
    PROVE  \E A \in SUBSET todo : Greedy(p, todo, taken, A)
<1> DEFINE F == {s \in SUBSET todo : \E A \in SUBSET s : Greedy(p, s, taken, A)}
<1>0. IsFiniteSet(todo) /\ \A i \in todo : i \in Nat /\ p.saved[i] \in Int
  BY ProblemFits, FS_Subset
<1>1. {} \in F
  BY DEF Greedy
<1>2. ASSUME NEW s \in SUBSET todo, s # {}, \A x \in s : s \ {x} \in F PROVE s \in F
  <2>1. PICK x \in s : \A j \in s \ {x} : SavesMore(p, j, x)
    BY <1>2, LastOnes
  <2> DEFINE r == s \ {x}
             before(A, i) == {j \in A : SavesMore(p, j, i)}
             fits(A, i) == HbmBytes(p, taken \cup before(A, i) \cup {i}) <= p.limit
  <2>2. PICK A \in SUBSET r : \A i \in r : i \in A <=> fits(A, i)
    BY <1>2, <2>1 DEF Greedy
  <2>3. \A i \in r : before(A \cup {x}, i) = before(A, i)
    BY <1>0, <2>1 DEF SavesMore
  <2>4. before(A \cup {x}, x) = before(A, x)
    BY <1>0, <2>1 DEF SavesMore
  <2> HIDE DEF before
  <2>5. CASE fits(A, x)
    <3>1. \A i \in s : i \in A \cup {x} <=> fits(A \cup {x}, i)
      BY <2>1, <2>2, <2>3, <2>4, <2>5
    <3>2. Greedy(p, s, taken, A \cup {x})
      BY <3>1 DEF Greedy, before
    <3> QED BY <2>1, <3>2
  <2>6. CASE ~fits(A, x)
    <3>1. \A i \in s : i \in A <=> fits(A, i)
      BY <2>1, <2>2, <2>6
    <3>2. Greedy(p, s, taken, A)
      BY <3>1 DEF Greedy, before
    <3> QED BY <3>2
  <2> QED BY <2>5, <2>6
<1> HIDE DEF F
<1>3. \A s \in SUBSET todo : s \in F
  BY <1>0, <1>1, <1>2, SubsetInduction
<1>4. todo \in F
  BY <1>3
<1> QED BY <1>4 DEF F

(* What the greedy loop takes fits the HBM, and nothing it leaves would.   *)
LEMMA TakenFits ==
    ASSUME NEW p \in Problems, NEW todo \in SUBSET Considered, NEW taken \in SUBSET Considered,
           HbmBytes(p, taken) <= p.limit, NEW T, T = TakeGreedy(p, todo, taken)
    PROVE  /\ taken \subseteq T /\ T \subseteq taken \cup todo
           /\ HbmBytes(p, T) <= p.limit
           /\ \A i \in todo \ T : HbmBytes(p, T \cup {i}) > p.limit
<1> DEFINE A == CHOOSE a \in SUBSET todo : Greedy(p, todo, taken, a)
<1>1. A \in SUBSET todo /\ Greedy(p, todo, taken, A) /\ T = taken \cup A
  <2>1. \E a \in SUBSET todo : Greedy(p, todo, taken, a)
    BY GreedyTakes
  <2>2. A \in SUBSET todo /\ Greedy(p, todo, taken, A)
    BY <2>1, Zenon
  <2> QED BY <2>2 DEF TakeGreedy
<1> HIDE DEF A
<1> DEFINE before(i) == {j \in A : SavesMore(p, j, i)}
<1>2. \A i \in todo : i \in A <=> HbmBytes(p, taken \cup before(i) \cup {i}) <= p.limit
  BY <1>1 DEF Greedy
<1>3. HbmBytes(p, T) <= p.limit
  <2>1. CASE A = {}
    BY <1>1, <2>1
  <2>2. CASE A # {}
    <3>1. PICK x \in A : \A j \in A \ {x} : SavesMore(p, j, x)
      BY <1>1, <2>2, LastOnes
    <3>2. taken \cup before(x) \cup {x} = T
      BY <1>1, <3>1
    <3> HIDE DEF before
    <3> QED BY <1>1, <1>2, <3>1, <3>2
  <2> QED BY <2>1, <2>2
<1>4. ASSUME NEW i \in todo \ T PROVE HbmBytes(p, T \cup {i}) > p.limit
  <2> DEFINE small == taken \cup before(i) \cup {i}
             large == T \cup {i}
  <2>1. small \subseteq large /\ large \in SUBSET Considered
    BY <1>1
  <2>2. ~(HbmBytes(p, small) <= p.limit)
    BY <1>1, <1>2, <1>4
  <2> HIDE DEF small, large
  <2>3. HbmBytes(p, small) <= HbmBytes(p, large)
        /\ HbmBytes(p, small) \in Nat /\ HbmBytes(p, large) \in Nat
    BY <2>1, LargerPlan, PlanParts
  <2>4. p.limit \in Int
    BY ProblemFits
  <2>5. HbmBytes(p, large) > p.limit
    BY <2>2, <2>3, <2>4
  <2> QED BY <2>5 DEF large
<1> QED BY <1>1, <1>3, <1>4

(* The gamma loop stops.                                                   *)
Stops(p, S, kept) ==
    {R \in DroppedSets(p, S \ kept) : R = S \ kept \/ MeetsGamma(p, S \ R)}

(* The gamma loop comes to an end, at the first of its states that is      *)
(* allowed to be one.                                                      *)
LEMMA TrimStops ==
    ASSUME NEW p \in Problems, NEW S \in SUBSET Considered, NEW kept
    PROVE  \E R \in Stops(p, S, kept) :
             /\ Trim(p, S, kept) = S \ R
             /\ \A Q \in Stops(p, S, kept) : Cardinality(R) <= Cardinality(Q)
<1> DEFINE stops == Stops(p, S, kept)
           D == S \ kept
           sizes == {Cardinality(R) : R \in stops}
           least == CHOOSE R \in stops : \A Q \in stops : Cardinality(R) <= Cardinality(Q)
<1>1. IsFiniteSet(D) /\ stops \subseteq SUBSET D
  BY ProblemFits, FS_Subset DEF Stops, DroppedSets
<1>2. D \in stops
  BY DEF Stops, DroppedSets
<1>3. Trim(p, S, kept) = S \ least
  BY DEF Trim, Stops
<1> HIDE DEF stops, D
<1>4. sizes \subseteq Nat /\ sizes # {}
  BY <1>1, <1>2, FS_Subset, FS_CardinalityType
<1>5. PICK n \in sizes : \A m \in sizes : n <= m
  BY <1>4, LeastNumber
<1>6. \E R \in stops : \A Q \in stops : Cardinality(R) <= Cardinality(Q)
  BY <1>5
<1>7. least \in stops /\ \A Q \in stops : Cardinality(least) <= Cardinality(Q)
  BY <1>6, Zenon
<1> HIDE DEF least
<1> QED BY <1>3, <1>7 DEF stops

(* Whatever it may drop, it keeps what it must and meets gamma or dropped  *)
(* all the rest.                                                           *)
LEMMA TrimFits ==
    ASSUME NEW p \in Problems, NEW S \in SUBSET Considered, NEW kept, kept \subseteq S,
           NEW T, T = Trim(p, S, kept)
    PROVE  kept \subseteq T /\ T \subseteq S /\ (T = kept \/ MeetsGamma(p, T))
<1>1. PICK R \in Stops(p, S, kept) : T = S \ R
  BY TrimStops
<1>2. R \subseteq S \ kept /\ (R = S \ kept \/ MeetsGamma(p, T))
  BY <1>1 DEF Stops, DroppedSets
<1> QED BY <1>1, <1>2

(* Where all it may drop saves, dropping does not help: it leaves all or   *)
(* nothing.                                                                *)
LEMMA TrimSaving ==
    ASSUME NEW p \in Problems, NEW S \in SUBSET Considered, NEW kept, kept \subseteq S,
           S \ kept \subseteq Saves(p), NEW T, T = Trim(p, S, kept)
    PROVE  T = IF MeetsGamma(p, S) THEN S ELSE kept
<1>1. PICK R \in Stops(p, S, kept) :
        T = S \ R /\ \A Q \in Stops(p, S, kept) : Cardinality(R) <= Cardinality(Q)
  BY TrimStops
<1>2. R \subseteq S \ kept /\ (R = S \ kept \/ MeetsGamma(p, S \ R))
  BY <1>1 DEF Stops, DroppedSets
<1>3. CASE MeetsGamma(p, S)
  <2>1. {} \in Stops(p, S, kept)
    <3>1. S \ {} = S /\ {} \in DroppedSets(p, S \ kept)
      BY DEF DroppedSets
    <3> QED BY <1>3, <3>1 DEF Stops
  <2>2. IsFiniteSet(R)
    BY <1>2, ProblemFits, FS_Subset
  <2>3. Cardinality(R) <= 0 /\ Cardinality(R) \in Nat
    BY <1>1, <2>1, <2>2, FS_EmptySet, FS_CardinalityType
  <2>4. R = {}
    BY <2>2, <2>3, FS_EmptySet
  <2> QED BY <1>1, <1>3, <2>4
<1>4. CASE ~MeetsGamma(p, S)
  <2> DEFINE U == S \ R
  <2>1. U \subseteq S /\ S \ U \subseteq Saves(p) /\ U \in SUBSET Considered
    BY <1>2
  <2> HIDE DEF U
  <2>2. Saving(p, U) <= Saving(p, S) /\ Saving(p, U) \in Int /\ Saving(p, S) \in Int
    BY <2>1, LargerPlan, PlanParts
  <2>3. p.excess \in Int
    BY ProblemFits
  <2>4. ~MeetsGamma(p, U)
    BY <1>4, <2>2, <2>3 DEF MeetsGamma
  <2>5. R = S \ kept
    BY <1>2, <2>4 DEF U
  <2> QED BY <1>1, <1>4, <2>5
<1> QED BY <1>3, <1>4

(* A plan of the same segments but one, which saves no more than what      *)
(* comes for it, saves no less.                                            *)
LEMMA Exchanged ==
    ASSUME NEW p \in Problems, NEW Y \in SUBSET Considered, NEW m \in Y,
           NEW i \in Considered \ Y, SavesLess(p, m, i), MeetsGamma(p, Y)
    PROVE  MeetsGamma(p, (Y \ {m}) \cup {i})
<1> DEFINE rest == Y \ {m}
           Z == rest \cup {i}
<1>1. IsFiniteSet(Y) /\ IsFiniteSet(Z) /\ \A j \in Considered : p.saved[j] \in Int
  BY ProblemFits, FS_Subset
<1>2. Z \ {i} = rest /\ i \in Z /\ Z \subseteq Considered
  OBVIOUS
<1> HIDE DEF Z
<1>3. SumOver(p.saved, Y) = p.saved[m] + SumOver(p.saved, rest)
  BY <1>1, SumTake
<1>4. SumOver(p.saved, Z) = p.saved[i] + SumOver(p.saved, rest)
  <2>1. SumOver(p.saved, Z) = p.saved[i] + SumOver(p.saved, Z \ {i})
    BY <1>1, <1>2, SumTake
  <2> QED BY <1>2, <2>1
<1>5. SumOver(p.saved, rest) \in Int
  <2>1. IsFiniteSet(rest) /\ \A j \in rest : p.saved[j] \in Int
    BY <1>1, FS_Subset
  <2> QED BY <2>1, SumInt
<1>6. p.saved[m] \in Int /\ p.saved[i] \in Int /\ p.saved[m] <= p.saved[i] /\ p.excess \in Int
  BY <1>1, ProblemFits DEF SavesLess
<1>7. SumOver(p.saved, Y) >= p.excess
  BY SavingIs DEF MeetsGamma
<1> HIDE DEF rest
<1>8. SumOver(p.saved, Z) >= p.excess
  BY <1>3, <1>4, <1>5, <1>6, <1>7
<1>9. MeetsGamma(p, Z)
  BY <1>8, SavingIs DEF MeetsGamma
<1> QED BY <1>9 DEF Z, rest

(* The gamma loop is exact: when it drops everything, no plan meets gamma. *)
LEMMA TrimExact ==
    ASSUME NEW p \in Problems, NEW S \in SUBSET Considered, Trim(p, S, {}) = {},
           NEW X \in SUBSET S, X # {}
    PROVE  ~MeetsGamma(p, X)
<1> SUFFICES ASSUME MeetsGamma(p, X) PROVE FALSE
  OBVIOUS
<1>0. IsFiniteSet(S) /\ S \subseteq Considered /\ S \ {} = S
  BY ProblemFits, FS_Subset
<1>1. \A Q \in Stops(p, S, {}) : Cardinality(S) <= Cardinality(Q)
  <2>1. PICK R \in Stops(p, S, {}) :
          S \ R = {} /\ \A Q \in Stops(p, S, {}) : Cardinality(R) <= Cardinality(Q)
    BY TrimStops
  <2>2. R = S
    BY <2>1 DEF Stops, DroppedSets
  <2> QED BY <2>1, <2>2
<1> DEFINE serves(W) == \E Y \in SUBSET W : Y # {} /\ MeetsGamma(p, Y)
           late == {W \in SUBSET S : S \ W \in DroppedSets(p, S) /\ serves(W)}
           sizes == {Cardinality(W) : W \in late}
<1>2. S \in late
  <2>1. S \ S \in DroppedSets(p, S)
    BY DEF DroppedSets
  <2> QED BY <2>1
<1>3. sizes \subseteq Nat /\ sizes # {}
  <2>1. \A W \in late : Cardinality(W) \in Nat
    BY <1>0, FS_Subset, FS_CardinalityType
  <2> HIDE DEF late
  <2> QED BY <1>2, <2>1
<1>4. PICK W \in late : \A V \in late : Cardinality(W) <= Cardinality(V)
  <2> HIDE DEF late
  <2>1. PICK n \in sizes : \A m \in sizes : n <= m
    BY <1>3, LeastNumber
  <2> QED BY <2>1
<1>5. PICK Y \in SUBSET W : Y # {} /\ MeetsGamma(p, Y)
  BY <1>4
<1>6. W \subseteq S /\ W # {} /\ IsFiniteSet(W) /\ S \ W \in DroppedSets(p, S)
  BY <1>0, <1>4, <1>5, FS_Subset
<1>7. ~MeetsGamma(p, W)
  <2> SUFFICES ASSUME MeetsGamma(p, W) PROVE FALSE
    OBVIOUS
  <2> DEFINE R == S \ W
  <2>1. S \ R = W /\ IsFiniteSet(R)
    BY <1>0, <1>6, FS_Subset
  <2>2. R \in Stops(p, S, {})
    BY <1>0, <1>6, <2>1 DEF Stops
  <2>3. PICK x \in W : TRUE
    BY <1>6
  <2>4. R \subseteq S \ {x}
    BY <2>3
  <2>5. Cardinality(S \ {x}) = Cardinality(S) - 1 /\ Cardinality(S) \in Nat
    BY <1>0, <1>6, <2>3, FS_RemoveElement, FS_CardinalityType
  <2>6. IsFiniteSet(S \ {x})
    BY <1>0, FS_Subset
  <2>7. Cardinality(R) <= Cardinality(S \ {x}) /\ Cardinality(R) \in Nat
    BY <2>1, <2>4, <2>6, FS_Subset, FS_CardinalityType
  <2> HIDE DEF R
  <2> QED BY <1>1, <2>2, <2>5, <2>7
<1>8. PICK m \in W : \A j \in W \ {m} : SavesLess(p, m, j)
  BY <1>0, <1>6, LastOnes
<1> DEFINE V == W \ {m}
<1>9. S \ V \in DroppedSets(p, S)
  BY <1>6, <1>8 DEF DroppedSets
<1>10. \E Z \in SUBSET V : Z # {} /\ MeetsGamma(p, Z)
  <2>1. CASE m \notin Y
    BY <1>5, <2>1
  <2>2. CASE m \in Y
    <3>1. PICK i \in W : i \notin Y
      BY <1>5, <1>7
    <3>2. SavesLess(p, m, i) /\ i \in Considered \ Y /\ Y \in SUBSET Considered
      BY <1>0, <1>5, <1>6, <1>8, <2>2, <3>1
    <3>3. MeetsGamma(p, (Y \ {m}) \cup {i})
      BY <1>5, <2>2, <3>2, Exchanged
    <3> QED BY <1>5, <2>2, <3>1, <3>3
  <2> QED BY <2>1, <2>2
<1>11. V \in late
  BY <1>6, <1>9, <1>10
<1>12. Cardinality(V) = Cardinality(W) - 1 /\ Cardinality(W) \in Nat
  BY <1>6, <1>8, FS_RemoveElement, FS_CardinalityType
<1> HIDE DEF late, V
<1> QED BY <1>4, <1>11, <1>12

(* Gate 2 comes to an end: what it admits exists.                          *)
LEMMA AdmissionExists ==
    ASSUME NEW p \in Problems, NEW provisional
    PROVE  \E A \in SUBSET (Considered \ provisional) : Admitted(p, provisional, A)
<1> DEFINE open == Considered \ provisional
           fits(A, i) == MeetsGamma(p, provisional \cup {j \in A : j < i} \cup {i})
           F == {s \in SUBSET open : \E A \in SUBSET s : \A i \in s : i \in A <=> fits(A, i)}
<1>0. IsFiniteSet(open) /\ open \subseteq Nat
  BY ProblemFits, FS_Subset
<1>1. {} \in F
  OBVIOUS
<1>2. ASSUME NEW s \in SUBSET open, s # {}, \A x \in s : s \ {x} \in F PROVE s \in F
  <2>1. PICK x \in s : \A j \in s \ {x} : j < x
    <3>1. IsFiniteSet(s) /\ s \subseteq Nat
      BY <1>0, <1>2, FS_Subset
    <3> HIDE DEF F
    <3>2. PICK x \in s : \A j \in s : j <= x
      BY <1>2, <3>1, LargestNumber
    <3> QED BY <3>1, <3>2
  <2> DEFINE r == s \ {x}
             before(A, i) == {j \in A : j < i}
  <2>2. PICK A \in SUBSET r : \A i \in r : i \in A <=> fits(A, i)
    BY <1>2, <2>1
  <2>3. \A i \in r : before(A \cup {x}, i) = before(A, i)
    BY <1>0, <2>1
  <2>4. before(A \cup {x}, x) = before(A, x)
    BY <1>0, <2>1
  <2>5. \A i \in s : fits(A \cup {x}, i) <=> fits(A, i)
    BY <2>3, <2>4
  <2> HIDE DEF fits
  <2>6. CASE fits(A, x)
    <3>1. \A i \in s : i \in A \cup {x} <=> fits(A \cup {x}, i)
      BY <2>1, <2>2, <2>5, <2>6
    <3> QED BY <2>1, <3>1
  <2>7. CASE ~fits(A, x)
    <3>1. \A i \in s : i \in A <=> fits(A, i)
      BY <2>1, <2>2, <2>7
    <3> QED BY <3>1
  <2> QED BY <2>6, <2>7
<1> HIDE DEF F, open
<1>3. \A s \in SUBSET open : s \in F
  BY <1>0, <1>1, <1>2, SubsetInduction
<1>4. open \in F
  BY <1>3
<1> QED BY <1>4 DEF F, open, Admitted

(* What Gate 2 admits meets gamma, and when it admits nothing no single    *)
(* candidate would.                                                        *)
LEMMA TryFits ==
    ASSUME NEW p \in Problems, NEW provisional, provisional \subseteq Considered,
           NEW T, T = TryEach(p, provisional)
    PROVE  /\ provisional \subseteq T /\ T \subseteq Considered
           /\ (T = provisional \/ MeetsGamma(p, T))
           /\ T = provisional => \A i \in Considered \ T : ~MeetsGamma(p, T \cup {i})
<1> DEFINE A == CHOOSE a \in SUBSET (Considered \ provisional) : Admitted(p, provisional, a)
<1>1. A \in SUBSET (Considered \ provisional) /\ Admitted(p, provisional, A)
      /\ T = provisional \cup A
  <2>1. A \in SUBSET (Considered \ provisional) /\ Admitted(p, provisional, A)
    BY AdmissionExists, Zenon
  <2> QED BY <2>1 DEF TryEach
<1> HIDE DEF A
<1>2. \A i \in Considered \ provisional :
        i \in A <=> MeetsGamma(p, provisional \cup {j \in A : j < i} \cup {i})
  BY <1>1 DEF Admitted
<1>3. CASE A = {}
  <2>1. T = provisional /\ \A i : {j \in A : j < i} = {}
    BY <1>1, <1>3
  <2>2. \A i \in Considered \ T : ~MeetsGamma(p, T \cup {i})
    BY <1>2, <1>3, <2>1
  <2> QED BY <1>1, <2>1, <2>2
<1>4. CASE A # {}
  <2>1. IsFiniteSet(A) /\ A \subseteq Nat
    BY <1>1, ProblemFits, FS_Subset
  <2>2. PICK x \in A : \A j \in A \ {x} : j < x
    <3>1. PICK x \in A : \A j \in A : j <= x
      BY <1>4, <2>1, LargestNumber
    <3> QED BY <2>1, <3>1
  <2>3. {j \in A : j < x} \cup {x} = A
    BY <2>1, <2>2
  <2>4. provisional \cup {j \in A : j < x} \cup {x} = T
    BY <1>1, <2>3
  <2>5. MeetsGamma(p, T)
    BY <1>1, <1>2, <2>2, <2>4
  <2>6. T # provisional
    BY <1>1, <1>4
  <2> QED BY <1>1, <2>5, <2>6
<1> QED BY <1>3, <1>4

(* The greedy loop takes what the better ones leave room for.              *)
LEMMA TakesWithRoom ==
    ASSUME NEW p \in Problems, NEW todo \in SUBSET Considered, NEW taken \in SUBSET Considered,
           NEW i \in todo,
           ~(HbmBytes(p, taken \cup {j \in todo : SavesMore(p, j, i)} \cup {i}) > p.limit)
    PROVE  i \in TakeGreedy(p, todo, taken)
<1> DEFINE A == CHOOSE a \in SUBSET todo : Greedy(p, todo, taken, a)
           small == taken \cup {j \in A : SavesMore(p, j, i)} \cup {i}
           large == taken \cup {j \in todo : SavesMore(p, j, i)} \cup {i}
<1>1. A \in SUBSET todo /\ Greedy(p, todo, taken, A) /\ TakeGreedy(p, todo, taken) = taken \cup A
  <2>1. \E a \in SUBSET todo : Greedy(p, todo, taken, a)
    BY GreedyTakes
  <2>2. A \in SUBSET todo /\ Greedy(p, todo, taken, A)
    BY <2>1, Zenon
  <2> QED BY <2>2 DEF TakeGreedy
<1> HIDE DEF A
<1>2. i \in A <=> HbmBytes(p, small) <= p.limit
  BY <1>1 DEF Greedy
<1>3. small \subseteq large /\ large \in SUBSET Considered
  BY <1>1
<1>4. ~(HbmBytes(p, large) > p.limit)
  OBVIOUS
<1> HIDE DEF small, large
<1>5. HbmBytes(p, small) <= HbmBytes(p, large) /\ HbmBytes(p, small) \in Nat
      /\ HbmBytes(p, large) \in Nat /\ p.limit \in Int
  BY <1>3, LargerPlan, PlanParts, ProblemFits
<1>6. HbmBytes(p, small) <= p.limit
  BY <1>4, <1>5
<1> QED BY <1>1, <1>2, <1>6

(* So a greedy planner that adds nothing misses only plans for which the   *)
(* better segments leave no room.                                          *)
LEMMA MissedForRoom ==
    ASSUME NEW p \in Problems, Kept(p) \in SUBSET Considered,
           NEW T, T = TakeGreedy(p, Choosable(p), Kept(p)),
           T \in SUBSET Considered, Kept(p) \subseteq T, T \ Kept(p) \subseteq Saves(p),
           T = Kept(p) \/ ~MeetsGamma(p, T),
           NEW X \in Missed(p), Kept(p) \subseteq X, X \ Kept(p) \subseteq Choosable(p)
    PROVE  \E i \in X \ Kept(p) : NoRoomFor(p, i)
<1> SUFFICES ASSUME \A i \in X \ Kept(p) : ~NoRoomFor(p, i) PROVE FALSE
  OBVIOUS
<1>1. Choosable(p) \in SUBSET Considered
  BY ProblemFits DEF Choosable
<1>2. \A i \in X \ Kept(p) : i \in T
  BY <1>1, TakesWithRoom DEF NoRoomFor
<1>3. X \subseteq T /\ X # Kept(p) /\ MeetsGamma(p, X)
  BY <1>2 DEF Missed
<1>4. T \ X \subseteq Saves(p) /\ ~MeetsGamma(p, T)
  BY <1>3
<1>5. Saving(p, X) <= Saving(p, T) /\ Saving(p, X) \in Int /\ Saving(p, T) \in Int
      /\ p.excess \in Int
  BY <1>3, <1>4, LargerPlan, PlanParts, ProblemFits
<1> QED BY <1>3, <1>4, <1>5 DEF MeetsGamma

(* What each planner answers is exact.                                     *)
LEMMA GreedyExact ==
    ASSUME NEW p \in Problems, p.kind = "v7", NEW S,
           S = Trim(p, TakeGreedy(p, Flagged(p) \cap Saves(p), {}), {})
    PROVE  /\ MayPlan(p, S)
           /\ (S = {} \/ MeetsGamma(p, S))
           /\ NothingBetter(p, S)
<1> DEFINE todo == Flagged(p) \cap Saves(p)
           T == TakeGreedy(p, todo, {})
<1>0. Kept(p) = {} /\ Choosable(p) = todo
  BY DEF Kept, Choosable
<1>1. todo \in SUBSET Considered /\ {} \in SUBSET Considered /\ todo \subseteq Saves(p)
      /\ p.limit \in Nat
  BY ProblemFits DEF Problems
<1> HIDE DEF todo
<1>2. HbmBytes(p, {}) <= p.limit
  BY <1>1, SavingIs, SumEmpty
<1>3. /\ {} \subseteq T /\ T \subseteq {} \cup todo /\ HbmBytes(p, T) <= p.limit
      /\ \A i \in todo \ T : HbmBytes(p, T \cup {i}) > p.limit
  BY <1>1, <1>2, TakenFits
<1> HIDE DEF T
<1>4. T \in SUBSET Considered /\ {} \subseteq T /\ T \ {} \subseteq Saves(p)
  BY <1>1, <1>3
<1>5. S = Trim(p, T, {})
  BY DEF T, todo
<1>6. S = IF MeetsGamma(p, T) THEN T ELSE {}
  BY <1>4, <1>5, TrimSaving
<1>7. MayPlan(p, S)
  <2>1. S \subseteq todo /\ HbmBytes(p, S) <= p.limit
    BY <1>2, <1>3, <1>6
  <2> QED BY <2>1 DEF MayPlan, todo
<1>8. ASSUME S = {}, NEW X \in Missed(p) PROVE \E i \in X \ S : NoRoomFor(p, i)
  <2>1. X \subseteq todo
    BY DEF Missed, MayPlan, todo
  <2>2. T = {} \/ ~MeetsGamma(p, T)
    BY <1>6, <1>8
  <2>3. T = TakeGreedy(p, Choosable(p), Kept(p))
    BY <1>0 DEF T
  <2>4. X \ Kept(p) \subseteq Choosable(p)
    BY <1>0, <2>1
  <2>5. \E i \in X \ Kept(p) : NoRoomFor(p, i)
    BY <1>0, <1>1, <1>4, <2>2, <2>3, <2>4, MissedForRoom
  <2> QED BY <1>0, <1>8, <2>5
<1>9. S # {} => \A i \in Choosable(p) \ S : HbmBytes(p, S \cup {i}) > p.limit
  BY <1>0, <1>3, <1>6
<1> QED BY <1>0, <1>6, <1>7, <1>8, <1>9 DEF NothingBetter

(* The predicted planner keeps what is prefetched and fills up to the HBM. *)
LEMMA PredictedExact ==
    ASSUME NEW p \in Problems, p.kind = "predicted", HbmBytes(p, Flagged(p)) <= p.limit, NEW S,
           S = Trim(p, TakeGreedy(p, Saves(p) \ Flagged(p), Flagged(p)), Flagged(p))
    PROVE  /\ MayPlan(p, S)
           /\ (S = Flagged(p) \/ MeetsGamma(p, S))
           /\ NothingBetter(p, S)
<1> DEFINE F == Flagged(p)
           todo == Saves(p) \ F
           T == TakeGreedy(p, todo, F)
<1>0. Kept(p) = F /\ Choosable(p) = todo
  BY ProblemFits DEF Kept, Choosable
<1>1. todo \in SUBSET Considered /\ F \in SUBSET Considered /\ todo \subseteq Saves(p)
  BY ProblemFits
<1> HIDE DEF todo, F
<1>2. HbmBytes(p, F) <= p.limit
  BY DEF F
<1>3. /\ F \subseteq T /\ T \subseteq F \cup todo /\ HbmBytes(p, T) <= p.limit
      /\ \A i \in todo \ T : HbmBytes(p, T \cup {i}) > p.limit
  BY <1>1, <1>2, TakenFits
<1> HIDE DEF T
<1>4. T \in SUBSET Considered /\ F \subseteq T /\ T \ F \subseteq Saves(p)
  BY <1>1, <1>3
<1>5. S = Trim(p, T, F)
  BY DEF T, todo, F
<1>6. S = IF MeetsGamma(p, T) THEN T ELSE F
  BY <1>4, <1>5, TrimSaving
<1>7. MayPlan(p, S)
  <2>1. F \subseteq S /\ S \subseteq F \cup todo /\ HbmBytes(p, S) <= p.limit
    BY <1>2, <1>3, <1>6
  <2> QED BY <2>1 DEF MayPlan, todo, F
<1>8. S # F => \A i \in todo \ S : HbmBytes(p, S \cup {i}) > p.limit
  BY <1>3, <1>6
<1>9. ASSUME S = F, NEW X \in Missed(p) PROVE \E i \in X \ S : NoRoomFor(p, i)
  <2>1. F \subseteq X /\ X \ F \subseteq todo
    BY DEF Missed, MayPlan, todo, F
  <2>2. T = F \/ ~MeetsGamma(p, T)
    BY <1>6, <1>9
  <2>3. T = TakeGreedy(p, Choosable(p), Kept(p))
    BY <1>0 DEF T
  <2>4. Kept(p) \subseteq X /\ X \ Kept(p) \subseteq Choosable(p)
    BY <1>0, <2>1
  <2>5. \E i \in X \ Kept(p) : NoRoomFor(p, i)
    BY <1>0, <1>1, <1>4, <2>2, <2>3, <2>4, MissedForRoom
  <2> QED BY <1>0, <1>9, <2>5
<1>10. NothingBetter(p, S)
  BY <1>0, <1>8, <1>9 DEF NothingBetter
<1> QED BY <1>6, <1>7, <1>10 DEF F

(* The prefetched segments alone are too much: no plan would do.           *)
LEMMA PredictedRaises ==
    ASSUME NEW p \in Problems, p.kind = "predicted", HbmBytes(p, Flagged(p)) > p.limit,
           NEW T \in SUBSET Considered
    PROVE  ~MayPlan(p, T)
<1> SUFFICES ASSUME Flagged(p) \subseteq T, HbmBytes(p, T) <= p.limit PROVE FALSE
  BY DEF MayPlan
<1> DEFINE F == Flagged(p)
<1>1. F \subseteq T /\ HbmBytes(p, F) > p.limit
  OBVIOUS
<1> HIDE DEF F
<1>2. HbmBytes(p, F) <= HbmBytes(p, T) /\ HbmBytes(p, F) \in Nat /\ HbmBytes(p, T) \in Nat
  BY <1>1, LargerPlan, PlanParts
<1>3. p.limit \in Int
  BY ProblemFits
<1> QED BY <1>1, <1>2, <1>3

(* The refined planner gives up only where no plan meets gamma.            *)
LEMMA RefinedExact ==
    ASSUME NEW p \in Problems, p.kind = "refined", NEW S,
           S = Trim(p, Flagged(p) \cap Saves(p), {})
    PROVE  /\ MayPlan(p, S)
           /\ (S = {} \/ MeetsGamma(p, S))
           /\ NothingBetter(p, S)
<1> DEFINE D == Flagged(p) \cap Saves(p)
<1>1. D \in SUBSET Considered /\ {} \subseteq D /\ D \ {} \subseteq Saves(p)
  BY ProblemFits
<1> HIDE DEF D
<1>2. S = IF MeetsGamma(p, D) THEN D ELSE {}
  <2>1. S = Trim(p, D, {})
    BY DEF D
  <2> QED BY <1>1, <2>1, TrimSaving
<1>3. MayPlan(p, S)
  <2>1. S \subseteq D
    BY <1>2
  <2> QED BY <2>1 DEF MayPlan, D
<1>4. ASSUME S = {}, NEW T \in SUBSET Considered, T # {}, MayPlan(p, T) PROVE ~MeetsGamma(p, T)
  <2>1. T \subseteq D
    BY <1>4 DEF MayPlan, D
  <2>2. ~MeetsGamma(p, D)
    BY <1>2, <1>4, <2>1
  <2>3. D \ T \subseteq Saves(p)
    BY <1>1
  <2>4. Saving(p, T) <= Saving(p, D) /\ Saving(p, T) \in Int /\ Saving(p, D) \in Int
    BY <1>1, <2>1, <2>3, LargerPlan, PlanParts
  <2>5. p.excess \in Int
    BY ProblemFits
  <2> QED BY <2>2, <2>4, <2>5 DEF MeetsGamma
<1>5. Kept(p) = {}
  BY DEF Kept
<1>6. S = {} => Missed(p) = {}
  BY <1>4, <1>5 DEF Missed
<1> QED BY <1>2, <1>3, <1>5, <1>6 DEF NothingBetter

(* Every planner's answer is exact.                                        *)
PlannersFit ==
    /\ problem \in Problems
    /\ answer = Unanswered \/ answer = Solve(problem)

(* So whatever the planner, what it answers is exact.                      *)
LEMMA PlannersExact == ASSUME PlannersFit PROVE PlansExact
<1> DEFINE p == problem
           F == Flagged(p)
<1>0. p \in Problems /\ F \subseteq Considered
  BY ProblemFits DEF PlannersFit
<1>1. CASE answer = Unanswered
  BY <1>1 DEF PlansExact, Unanswered
<1>2. CASE answer = Solve(p)
  <2>0. p.kind \in {"v7", "predicted", "refined", "gate2", "gate3"}
    BY <1>0, PlannerShape DEF Problems
  <2>1. CASE p.kind = "v7"
    <3> DEFINE S == Trim(p, TakeGreedy(p, F \cap Saves(p), {}), {})
    <3>1. answer = Answer(S)
      BY <1>2, <2>1 DEF Solve
    <3>2. /\ MayPlan(p, S)
          /\ (S = {} \/ MeetsGamma(p, S))
          /\ NothingBetter(p, S)
      BY <1>0, <2>1, GreedyExact
    <3> HIDE DEF S
    <3>3. answer.reuse = S /\ ~answer.raised
      BY <3>1 DEF Answer
    <3>4. Kept(p) = {}
      BY <2>1 DEF Kept
    <3> QED BY <3>2, <3>3, <3>4 DEF PlansExact
  <2>2. CASE p.kind = "predicted" /\ HbmBytes(p, F) <= p.limit
    <3> DEFINE S == Trim(p, TakeGreedy(p, Saves(p) \ F, F), F)
    <3>0. ~(HbmBytes(p, F) > p.limit)
      <4>1. F \in SUBSET Considered /\ F \subseteq F
        BY <1>0
      <4>2. HbmBytes(p, F) \in Nat /\ p.limit \in Int
        BY <1>0, <4>1, PlanParts, ProblemFits
      <4> QED BY <2>2, <4>2
    <3>1. answer = Answer(S)
      BY <1>2, <2>2, <3>0 DEF Solve
    <3>2. /\ MayPlan(p, S)
          /\ (S = F \/ MeetsGamma(p, S))
          /\ NothingBetter(p, S)
      BY <1>0, <2>2, PredictedExact
    <3> HIDE DEF S
    <3>3. answer.reuse = S /\ ~answer.raised
      BY <3>1 DEF Answer
    <3>4. Kept(p) = F
      BY <2>2 DEF Kept
    <3> QED BY <3>2, <3>3, <3>4 DEF PlansExact
  <2>3. CASE p.kind = "predicted" /\ ~(HbmBytes(p, F) <= p.limit)
    <3>0. HbmBytes(p, F) > p.limit
      <4>1. F \in SUBSET Considered /\ F \subseteq F
        BY <1>0
      <4>2. HbmBytes(p, F) \in Nat /\ p.limit \in Int
        BY <1>0, <4>1, PlanParts, ProblemFits
      <4> QED BY <2>3, <4>2
    <3>1. answer = MemoryError
      BY <1>2, <2>3, <3>0 DEF Solve
    <3>2. \A T \in SUBSET Considered : ~MayPlan(p, T)
      BY <1>0, <2>3, <3>0, PredictedRaises
    <3>3. answer.raised
      BY <3>1 DEF MemoryError
    <3> QED BY <3>2, <3>3 DEF PlansExact
  <2>4. CASE p.kind = "refined"
    <3> DEFINE S == Trim(p, F \cap Saves(p), {})
    <3>1. answer = Answer(S)
      BY <1>2, <2>4 DEF Solve
    <3>2. /\ MayPlan(p, S)
          /\ (S = {} \/ MeetsGamma(p, S))
          /\ NothingBetter(p, S)
      BY <1>0, <2>4, RefinedExact
    <3> HIDE DEF S
    <3>3. answer.reuse = S /\ ~answer.raised
      BY <3>1 DEF Answer
    <3>4. Kept(p) = {}
      BY <2>4 DEF Kept
    <3> QED BY <3>2, <3>3, <3>4 DEF PlansExact
  <2>5. CASE p.kind = "gate2"
    <3> DEFINE S == TryEach(p, F)
    <3>1. answer = Answer(S)
      BY <1>2, <2>5 DEF Solve
    <3>2. /\ F \subseteq S
          /\ (S = F \/ MeetsGamma(p, S))
          /\ S = F => \A i \in Considered \ S : ~MeetsGamma(p, S \cup {i})
      BY <1>0, TryFits
    <3> HIDE DEF S
    <3>3. answer.reuse = S /\ ~answer.raised
      BY <3>1 DEF Answer
    <3>4. NothingBetter(p, S) /\ Kept(p) = F
      BY <2>5, <3>2 DEF NothingBetter, Kept
    <3>5. MayPlan(p, S)
      BY <2>5, <3>2 DEF MayPlan
    <3> QED BY <3>2, <3>3, <3>4, <3>5 DEF PlansExact
  <2>6. CASE p.kind = "gate3"
    <3> DEFINE S == Trim(p, Considered, {})
    <3>1. answer = Answer(S)
      BY <1>2, <2>6 DEF Solve
    <3>2. Considered \in SUBSET Considered /\ {} \subseteq Considered
      OBVIOUS
    <3>3. S = {} \/ MeetsGamma(p, S)
      BY <1>0, <3>2, TrimFits
    <3>4. S = {} => \A T \in (SUBSET Considered) \ {{}} : ~MeetsGamma(p, T)
      BY <1>0, <3>2, TrimExact
    <3> HIDE DEF S
    <3>5. answer.reuse = S /\ ~answer.raised
      BY <3>1 DEF Answer
    <3>6. NothingBetter(p, S) /\ Kept(p) = {}
      BY <2>6, <3>4 DEF NothingBetter, Kept, Missed
    <3>7. MayPlan(p, S)
      BY <2>6 DEF MayPlan
    <3> QED BY <3>3, <3>5, <3>6, <3>7 DEF PlansExact
  <2> QED BY <2>0, <2>1, <2>2, <2>3, <2>4, <2>5, <2>6
<1> QED BY <1>1, <1>2 DEF PlannersFit

(* Every answer a planner gives, for any number of segments with any       *)
(* savings and sizes, is a plan the request may run, meets gamma, and is   *)
(* exact (v7_planner.py:187-275, v8_planner.py:143-403,                    *)
(* v8_schema6_planner.py:107-290).                                         *)
THEOREM PlansAreExact == PlannerSpec => []PlansExact
<1>1. PlannerInit => PlannersFit
  <2> SUFFICES ASSUME PlannerInit PROVE PlannersFit
    OBVIOUS
  <2>1. PICK kind \in Planners, row \in [Considered -> SegmentOptions], e \in Excesses, h \in HbmLimits :
          problem = [kind |-> kind, saved |-> [i \in Considered |-> row[i].saved],
                     bytes |-> [i \in Considered |-> row[i].bytes],
                     flag |-> [i \in Considered |-> row[i].flag], excess |-> e, limit |-> h]
    BY DEF PlannerInit
  <2> DEFINE saved == [i \in Considered |-> row[i].saved]
             bytes == [i \in Considered |-> row[i].bytes]
             flag == [i \in Considered |-> row[i].flag]
  <2>2. \A i \in Considered : row[i] \in [saved : Int, bytes : Nat, flag : BOOLEAN]
    BY PlannerShape
  <2>3. saved \in [Considered -> Int] /\ bytes \in [Considered -> Nat]
        /\ flag \in [Considered -> BOOLEAN]
    BY <2>2
  <2>4. e \in Int /\ h \in Nat
    BY PlannerShape
  <2> HIDE DEF saved, bytes, flag
  <2>5. problem \in Problems
    <3>1. problem = [kind |-> kind, saved |-> saved, bytes |-> bytes, flag |-> flag,
                     excess |-> e, limit |-> h]
      BY <2>1 DEF saved, bytes, flag
    <3> QED BY <2>3, <2>4, <3>1 DEF Problems
  <2>6. answer = Unanswered
    BY DEF PlannerInit
  <2> QED BY <2>5, <2>6 DEF PlannersFit
<1>2. PlannersFit /\ [PlannerAnswers]_plannerVars => PlannersFit'
  BY DEF PlannersFit, PlannerAnswers, plannerVars
<1>3. PlannersFit => PlansExact
  BY PlannersExact
<1> QED BY <1>1, <1>2, <1>3, PTL DEF PlannerSpec
=============================================================================
