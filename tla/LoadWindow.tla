----------------------------- MODULE LoadWindow -----------------------------
(***************************************************************************)
(* What the GPU does while the Sources of a request A are loaded           *)
(* (src/probekv/prefetch.py, scheduler.py).  The locked winners that fit   *)
(* in HBM are loaded; until the first is ready, whole layers of A and then *)
(* microbatches of other requests run, each only when it ends in time.     *)
(* simulate_schedule is the same window with one other request.  Time is   *)
(* in integer milliseconds, the tolerance 1e-12 is zero.                   *)
(***************************************************************************)
EXTENDS Integers, Sequences, FiniteSets, FiniteSetsExt, SequencesExt

CONSTANTS
    SchedulerPolicies,   \* the policies to run
    Winners,       \* sets of locked winners to choose from
    HbmAvailable,  \* bytes left for them
    Scenarios,     \* timings: dense, extra, micro, overrun, interference
    ReadyQueues,   \* sequences of requests: ready_at, layer, work
    ALayer, HybridBudget

VARIABLES stage, policy, scenario, queue, winners, loading, ready, now, dense, service

windowVars == <<stage, policy, scenario, queue, winners, loading, ready, now, dense, service>>

PolicyNames == {"no_overlap", "a_only", "b_only", "hybrid", "hybrid_strict", "hybrid_bounded_overrun"}
Hybrid(p) == p \in {"hybrid", "hybrid_strict", "hybrid_bounded_overrun"}

(* SchedulerScenario, ReadyRequest and LockedSegmentWinner refuse others.  *)
ScenarioLegal(s) ==
    s \in [dense : Nat, extra : Nat, micro : Nat, overrun : Nat, interference : Nat]
QueueLegal(q) == q \in Seq([ready_at : Nat, layer : Nat, work : Nat])
WinnersLegal(W) ==
    /\ \A v, w \in W : v.segment = w.segment => v = w
    /\ \A w \in W : w.probe \in Nat \ {0} /\ w.bytes \in Nat /\ w.load \in Nat

ASSUME WindowInputs ==
    /\ SchedulerPolicies \subseteq PolicyNames
    /\ \A s \in Scenarios : ScenarioLegal(s)
    /\ \A q \in ReadyQueues : QueueLegal(q)
    /\ \A W \in Winners : WinnersLegal(W)

(***************************************************************************)
(* choose_locked_winner_prefetch: layer first, then value density; one     *)
(* that does not fit is skipped.                                           *)
(***************************************************************************)
PrefetchBefore(v, w) ==
    \/ v.probe < w.probe
    \/ /\ v.probe = w.probe
       /\ \/ v.saved * Max({1, w.bytes}) > w.saved * Max({1, v.bytes})
          \/ v.saved * Max({1, w.bytes}) = w.saved * Max({1, v.bytes}) /\ v.segment < w.segment

BytesOf(W) == MapThenSumSet(LAMBDA w : w.bytes, W)

LockedPrefetch(W, hbm) ==
    {T \in SUBSET W : \A w \in W :
        w \in T <=> BytesOf({v \in T : PrefetchBefore(v, w)}) + w.bytes <= hbm}

(* simulate_multisource_schedule: the window ends when the first is ready; *)
(* the interference is taken from its load and added again.                *)
FirstReady(W, s) ==
    Max({0, Min({w.load + s.interference : w \in W}) - s.interference}) + s.interference

Waiting(p, s, q, W) ==
    /\ stage = "locked"
    /\ policy = p /\ scenario = s /\ queue = q /\ winners = W
    /\ loading = {} /\ ready = 0 /\ now = 0 /\ dense = 0
    /\ service = [i \in DOMAIN q |-> 0]

WindowInit ==
    \E p \in SchedulerPolicies, s \in Scenarios, q \in ReadyQueues, W \in Winners :
        Waiting(p, s, q, W)

StartLoads ==
    /\ stage = "locked"
    /\ loading' \in LockedPrefetch(winners, HbmAvailable)
    /\ IF loading' = {} THEN stage' = "nothing_loaded" /\ UNCHANGED ready
       ELSE /\ ready' = FirstReady(loading', scenario)
            /\ stage' = "dense"
    /\ UNCHANGED <<policy, scenario, queue, winners, now, dense, service>>

(* _atomic_step_allowed.  A step past source-ready ends its loop, and the  *)
(* next loop needs now < ready: the overrun is never used twice.           *)
StepAllowed(finish) ==
    \/ finish <= ready
    \/ policy = "hybrid_bounded_overrun" /\ finish - ready <= scenario.overrun

DenseCap ==
    CASE policy = "a_only" -> scenario.extra
      [] Hybrid(policy) -> Min({scenario.extra, HybridBudget})
      [] OTHER -> 0

DenseFits == dense < DenseCap /\ now < ready /\ StepAllowed(now + scenario.dense)

DenseLayer ==
    /\ stage = "dense" /\ DenseFits
    /\ now' = now + scenario.dense
    /\ dense' = dense + 1
    /\ stage' = IF now' > ready THEN "queue" ELSE stage
    /\ UNCHANGED <<policy, scenario, queue, winners, loading, ready, service>>

DenseOver ==
    /\ stage = "dense" /\ ~DenseFits
    /\ stage' = "queue"
    /\ UNCHANGED <<policy, scenario, queue, winners, loading, ready, now, dense, service>>

(***************************************************************************)
(* Other requests: A's layer first, then the least served one; requests of *)
(* the lead's layer share its batch.                                       *)
(***************************************************************************)
ServesOthers == policy = "b_only" \/ Hybrid(policy)
Unfinished == {i \in DOMAIN queue : service[i] < queue[i].work}
ReadyNow == {i \in Unfinished : queue[i].ready_at <= now}

ServedBefore(i, j) ==
    LET away(k) == IF queue[k].layer = ALayer THEN 0 ELSE 1
    IN  \/ away(i) < away(j)
        \/ /\ away(i) = away(j)
           /\ \/ service[i] * queue[j].work < service[j] * queue[i].work
              \/ service[i] * queue[j].work = service[j] * queue[i].work /\ i < j

Batch(lead) == {i \in ReadyNow : queue[i].layer = queue[lead].layer}
StepOf(batch) == Min({scenario.micro} \cup {queue[i].work - service[i] : i \in batch})

(* Mutant: only the request served first leads.                            *)
FirstLead ==
    {i \in ReadyNow : /\ \A j \in ReadyNow \ {i} : ServedBefore(i, j)
                      /\ StepOf(Batch(i)) > 0 /\ StepAllowed(now + StepOf(Batch(i)))}
Leads == {i \in ReadyNow : StepOf(Batch(i)) > 0 /\ StepAllowed(now + StepOf(Batch(i)))}

RunBatch ==
    /\ stage = "queue" /\ ServesOthers /\ now < ready /\ Leads # {}
    /\ \E lead \in Leads :
         /\ \A j \in Leads \ {lead} : ServedBefore(lead, j)
         /\ now' = now + StepOf(Batch(lead))
         /\ service' = [i \in DOMAIN queue |->
              service[i] + (IF i \in Batch(lead) THEN StepOf(Batch(lead)) ELSE 0)]
    /\ UNCHANGED <<stage, policy, scenario, queue, winners, loading, ready, dense>>

Arrivals == {queue[i].ready_at : i \in Unfinished}

IdleUntil(times) == Min({Min(times), ready})

(* queue-idle: nobody is ready now, somebody will be.                      *)
AwaitArrival ==
    /\ stage = "queue" /\ ServesOthers /\ now < ready /\ ReadyNow = {} /\ Unfinished # {}
    /\ now' = IdleUntil(Arrivals)
    /\ UNCHANGED <<stage, policy, scenario, queue, winners, loading, ready, dense, service>>

(* A resumes at source-ready or when the step under way ends.              *)
Resume ==
    /\ stage = "queue"
    /\ \/ ~ServesOthers \/ now >= ready \/ Unfinished = {}
       \/ ReadyNow # {} /\ Leads = {}
    /\ stage' = "resumed"
    /\ UNCHANGED <<policy, scenario, queue, winners, loading, ready, now, dense, service>>

WindowStep == StartLoads \/ DenseLayer \/ DenseOver \/ RunBatch \/ AwaitArrival \/ Resume

WindowSpec == WindowInit /\ [][WindowStep]_windowVars /\ WF_windowVars(WindowStep)

-----------------------------------------------------------------------------
(* A is blocked after its Source is ready only under the bounded policy    *)
(* and within its budget, however layers, batches and idling interleave.   *)
BlockingBounded ==
    now > ready => /\ policy = "hybrid_bounded_overrun"
                   /\ now - ready <= scenario.overrun

(* The GPU is left idle until source-ready only if no waiting request has  *)
(* a step that would still end in time, of any layer.                      *)
IdleJustified ==
    stage = "resumed" /\ ServesOthers /\ now < ready /\ scenario.micro > 0 =>
        \A i \in ReadyNow :
            ~StepAllowed(now + Min({scenario.micro, queue[i].work - service[i]}))

(* The time until source-ready is spent on what fits in it, neither more   *)
(* nor, while somebody waits, less.                                        *)
WindowWellSpent == BlockingBounded /\ IdleJustified

(* Every window ends.                                                      *)
WindowEnds == <>(stage \in {"resumed", "nothing_loaded"})

=============================================================================
