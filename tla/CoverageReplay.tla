--------------------------- MODULE CoverageReplay ---------------------------
(***************************************************************************)
(* The coverage curve of a trace at one K (replay_coverage_curve of        *)
(* src/probekv/v8_schema10_metrics.py), one request after the other: what  *)
(* the pool would hold, with probation, and what is compared of it.  The   *)
(* requests are those of one content; a Variant is first catalogued with   *)
(* its creation, whatever request of the trace it appears in.  A count of  *)
(* comparisons stops at 2, which is what verifies.                         *)
(***************************************************************************)
EXTENDS Naturals, FiniteSets, FiniteSetsExt, Sequences, SequencesExt

CONSTANTS TraceVariants,      \* numbered in the order of their ids
          Created,            \* functions from Variants to creation epochs
          TraceLength, Capacity,
          ScoresAt, KBudgets  \* what a request measured of each Variant, compared_k_budget

VARIABLES created, bornVerified,
          epoch,        \* request_epoch of the request replayed next
          pool,         \* last_use, registered, comparisons, lookups and verified of each
          inserted,     \* known_inserted
          compared,     \* what the last request compared
          covered       \* requests with a compatible Variant, committed ones

replayVars == <<created, bornVerified, epoch, pool, inserted, compared, covered>>

ReplayInit ==
  /\ created \in Created
  /\ bornVerified \in SUBSET TraceVariants
  /\ epoch = 1 /\ pool = <<>> /\ inserted = {} /\ compared = {}
  /\ covered = [requests |-> 0, compatible |-> 0, committed |-> 0]

-----------------------------------------------------------------------------
(* The order of sort keys.                                                 *)
Less(s, t) == \E i \in DOMAIN s : s[i] < t[i] /\ \A j \in 1..(i - 1) : s[j] = t[j]

(* Probation protects the two youngest that were not looked up twice.      *)
Protected(p) ==
  LET waiting == {v \in DOMAIN p : ~p[v].verified /\ p[v].lookups < 2}
      younger(v) == {u \in waiting : Less(<<p[v].registered, v>>, <<p[u].registered, u>>)}
  IN  {v \in waiting : Cardinality(younger(v)) < 2}

LeastRecent(p, V) ==
  CHOOSE v \in V : \A u \in V \ {v} : Less(<<p[v].lastUse, v>>, <<p[u].lastUse, u>>)

Without(p, v) == [u \in DOMAIN p \ {v} |-> p[u]]

(* One insertion; the pool is within its capacity before.                  *)
Insert(p, v) ==
  LET grown == [u \in DOMAIN p \cup {v} |->
                  IF u # v THEN p[u]
                  ELSE [lastUse |-> created[v], registered |-> created[v],
                        comparisons |-> IF v \in bornVerified THEN 2 ELSE 0,
                        lookups |-> 0, verified |-> v \in bornVerified]]
      victims == DOMAIN p \ Protected(grown)
  IN  IF Cardinality(DOMAIN grown) <= Capacity THEN grown
      ELSE IF victims = {} THEN p
      ELSE Without(grown, LeastRecent(grown, victims))

NewRows == {v \in TraceVariants \ inserted : created[v] < epoch}
InCreationOrder(S) ==
  SetToSortSeq(S, LAMBDA v, u : Less(<<created[v], v>>, <<created[u], u>>))

(* Compared are the first of the pool by metadata rank, within the budget; *)
(* the compatible one of least residual wins and is used now; comparisons  *)
(* verify, and a lookup of what stays unverified is counted.               *)
Compared(p, scores, budget) ==
  LET present == DOMAIN p \cap DOMAIN scores
      ahead(v) == {u \in present : Less(<<scores[u].rank, u>>, <<scores[v].rank, v>>)}
  IN  {v \in present : Cardinality(ahead(v)) < budget}

WinnersOf(S, scores) ==
  LET fits == {v \in S : scores[v].compatible}
      Key(v) == <<scores[v].residual, scores[v].rank, v>>
  IN  {v \in fits : \A u \in fits \ {v} : Less(Key(v), Key(u))}

Observed(p, seen, winners) ==
  [v \in DOMAIN p |->
     LET count == p[v].comparisons + (IF v \in seen /\ p[v].comparisons < 2 THEN 1 ELSE 0)
         verified == p[v].verified \/ (v \in seen /\ count >= 2)
     IN  [p[v] EXCEPT !.lastUse = IF v \in winners THEN epoch ELSE @,
                      !.comparisons = count, !.verified = verified,
                      !.lookups = IF verified THEN @ ELSE @ + 1]]

ReplayRequest ==
  /\ covered.requests < TraceLength
  /\ LET filled == FoldLeft(Insert, pool, InCreationOrder(NewRows))
     IN  \E scores \in ScoresAt, budget \in KBudgets :
           LET seen == Compared(filled, scores, budget)  won == WinnersOf(seen, scores)
           IN  /\ compared' = seen
               /\ pool' = Observed(filled, seen, won)
               /\ covered' = [requests |-> covered.requests + 1,
                              compatible |-> covered.compatible + Cardinality(won),
                              committed |-> covered.committed
                                + Cardinality({v \in won : scores[v].commits})]
  /\ inserted' = inserted \cup NewRows
  /\ epoch' \in {epoch, epoch + 1}
  /\ UNCHANGED <<created, bornVerified>>

ReplaySpec == ReplayInit /\ [][ReplayRequest]_replayVars

-----------------------------------------------------------------------------
(* The curve is causal and stays within K: what a request compares existed *)
(* before it, what left the pool never returns, and a Variant on probation *)
(* that was not yet looked up leaves only for two younger ones on          *)
(* probation.  Something leaves only a pool that stays full, and what      *)
(* stays without the protection of probation was used after it.            *)
ReplayStep ==
  /\ \A v \in compared' : created[v] < epoch
  /\ Cardinality(DOMAIN pool') <= Capacity
  /\ DOMAIN pool' \cap inserted \subseteq DOMAIN pool
  /\ \A v \in DOMAIN pool \ DOMAIN pool' :
       ~pool[v].verified /\ pool[v].lookups < 2 =>
         Cardinality({u \in inserted' \ bornVerified : u # v /\ created[u] >= created[v]}) >= 2
  /\ LET out == (DOMAIN pool \cup (inserted' \ inserted)) \ DOMAIN pool'
         LastUse(v) == IF v \in DOMAIN pool THEN pool[v].lastUse ELSE created[v]
     IN  /\ out # {} => Cardinality(DOMAIN pool') = Capacity
         /\ \A v \in out, u \in (DOMAIN pool \cap DOMAIN pool') \ Protected(pool) :
              Less(<<LastUse(v), v>>, <<LastUse(u), u>>)
CurveCausal == [][ReplayStep]_replayVars
=============================================================================
