----------------------------- MODULE MCOffline -----------------------------
(* Programs that keep no Replica pool, in one run; each behaviour          *)
(* exercises one: the job ledger of an experiment, the qualification of a  *)
(* checkout, the closed-loop controllers of v4 to v6, the load window of a *)
(* scheduler, the Profile of a model from its first session to the Gate,   *)
(* the dispatch analysed from it, the rows each layer executes, the store  *)
(* of Sources, the runtime of one reuse, the joint repair controller, the  *)
(* selection protocol of a run, the replay of a coverage curve, the model  *)
(* that the runs of a process share, and the first runner of H1 cases.     *)
EXTENDS ClosedLoop, LoadWindow, JobLedger, Qualification, RepairMasks

CONSTANTS j1, j2, j3, j4, Parts
VARIABLES part,
          checkout, resultRows, tornRow, initFailure, runtimeAudit, profiling,   \* ProfilePipeline
          measured, bundles, freezing, dualGate, kills,
          tables, timely, dispatch, replayed,                              \* ProfileAnalysis
          storeMode, registered, recent, leased, replicas,                 \* SourceStore
          runtimeState, lockedSource, observed, profiledAs, outcome,       \* ReuseRuntime
          engineRuns, engineCalls,
          policyProfile, firstReuse, given, previous, chosenRows, choices, \* JointRepair
          building,
          depthProfile, fastQualified, legacyQualified, laterGates, h2,    \* SelectionDispatch
          dispatched, changes,
          created, bornVerified, epoch, pool, inserted, looked, covered,   \* CoverageReplay
          on, oldRows, cachedPrompts, fixtures, operation, todo, turn,     \* ModelModes
          forward, operations,
          oldSlots, nativeOn, native, caseTodo, caseRun, atDeadline,       \* CaseRunner
          process, processes, caseRows

-----------------------------------------------------------------------------
MCGroups == <<[case |-> 1, jobs |-> <<j1, j2>>], [case |-> 1, jobs |-> <<j3>>],
              [case |-> 2, jobs |-> <<j4>>]>>

TwoCheckpoints == <<1, 2>>
AllPolicies == {<<"strict_interval", FALSE>>, <<"final_economic_min_cost", TRUE>>}
SmallMenu ==
    {[score |-> 0, saved |-> 2, upper |-> 1, eligible |-> TRUE],
     [score |-> 1, saved |-> 3, upper |-> 2, eligible |-> TRUE],
     [score |-> 0, saved |-> 1, upper |-> 1, eligible |-> FALSE]}
SmallBounds ==
    {[lower |-> 1, upper |-> 1, repair |-> 1, covered |-> TRUE],
     [lower |-> 1, upper |-> 3, repair |-> 2, covered |-> TRUE],
     [lower |-> 2, upper |-> 3, repair |-> 1, covered |-> FALSE]}

Winner(g, p, b, l, s) == [segment |-> g, probe |-> p, bytes |-> b, load |-> l, saved |-> s]
TwoWinners ==
    {{Winner(1, 1, 2, l, s), Winner(2, p, b, 5, 2)} : l \in {4, 9}, s \in {1, 3}, p \in {1, 2}, b \in {1, 3}}
        \cup {{}, {Winner(1, 1, 9, 4, 1)}}
Timings ==
    [dense : {2, 3}, extra : {2}, micro : {0, 3}, overrun : {0, 1}, interference : {1}]
Queues ==
    {<<[ready_at |-> 0, layer |-> 1, work |-> w], [ready_at |-> r, layer |-> k, work |-> 1],
       [ready_at |-> 6, layer |-> 2, work |-> 5]>> : w \in {0, 5}, r \in {0, 3}, k \in {1, 2}}
    \cup {<<[ready_at |-> 12, layer |-> 1, work |-> 1]>>}

(* Two cases of two Sources at three checkpoints, the residuals one apart; *)
(* a second trim ratio that agrees with the last checkpoint only.          *)
OneRatio ==
  {[c \in {1, 2} |-> <<x[c], y[c], z[c]>>] :
     x, y \in [{1, 2} -> {0, 1, 2} \X {1}], z \in [{1, 2} -> {<<1, 1>>, <<1, 3>>, <<2, 1>>}]}
Another == {[c \in {1, 2} |-> <<<<x[c], 1>>, <<2 - x[c], 1>>, <<1, 2>>>>] : x \in [{1, 2} -> {0, 1, 2}]}
CalibrationTables == {<<t>> : t \in OneRatio} \cup {<<t, u>> : t, u \in Another}

(* Row 1 is the exact prefix and row 8 the suffix.                         *)
SegmentRows == [a |-> 2..5, b |-> 6..7]
Drifts ==
  {[p \in 1..8 |-> IF p \in hot THEN 2 ELSE IF p \in {3, 6} THEN 1 ELSE 0] :
     hot \in {{}, {2, 4}, {4, 5}, {5, 7}, {2, 3, 6}}}
CostsOfLayer ==
  {[repair |-> [r \in {25, 50, 75} |-> r \div 25], load |-> [cpu |-> 2, ssd |-> s], nonoverlap |-> 1] :
     s \in {1, 3}}

(* A store in which two Sources of a key have one context, or differ.      *)
StoreKey == [a |-> 1, b |-> 1, c |-> 1, d |-> 2]
StoreContext == [a |-> 1, b |-> 2, c |-> 3, d |-> 1]
StoreHandles == [a |-> {}, b |-> {"gpu"}, c |-> {}, d |-> {}]
(* The fixed-resident store evicts nothing, even where both policies would.*)
BothPolicies == [version |-> "fifo", replica |-> "lru", fixed |-> TRUE]
StoreLeases == [a |-> 1, b |-> 1, c |-> 0, d |-> 0]

RepairProfiles ==
  {[floor |-> 10, templates |-> {"uniform_floor", "load_priority"}, absolute |-> 0, relative |-> 0],
   [floor |-> 10, templates |-> {"uniform_floor", "uniform_cap", "load_priority"},
    absolute |-> 1, relative |-> 50]}

(* Variants 1 to 4, created one per request, three at once, or backwards.  *)
CreationTimes ==
  {[v \in 1..4 |-> v - 1], [v \in 1..4 |-> IF v < 4 THEN 0 ELSE 2], [v \in 1..4 |-> (5 - v) \div 2]}
Score(r, h, fits) == [rank |-> r, residual |-> h, compatible |-> fits, commits |-> fits]
ScoreTables ==
  {[v \in 1..4 |-> Score(v, v, TRUE)], [v \in 1..4 |-> Score(5 - v, 1, v # 4)],
   [v \in {1, 3} |-> Score(1, 1, TRUE)]}

(* Fixtures of one and two segments; boundaries together and staggered.     *)
Shape(n, k, prefixed) == [segments |-> n, variants |-> k, prefixed |-> prefixed]
ModelShapes == {Shape(1, 1, FALSE), Shape(1, 2, FALSE), Shape(2, 1, FALSE), Shape(1, 1, TRUE)}
ModelBoundaries == {<<2>>, <<3>>, <<2, 2>>, <<2, 3>>}

Profile == INSTANCE ProfilePipeline WITH
  CodeCommits <- Commits, Shards <- 2, BundleDirs <- {1, 2}, MaxKills <- 2
Analysis == INSTANCE ProfileAnalysis WITH
  Tables <- CalibrationTables, CheckpointDepths <- <<1, 2, 4>>,
  WrongLimit <- 50, CoverageLimit <- 80, RegretLimit <- 50
Store == INSTANCE SourceStore WITH
  StoreSources <- {"a", "b", "c", "d"}, KeyOf <- StoreKey, ContextOf <- StoreContext,
  HandleTier <- StoreHandles, TierCapacity <- [gpu |-> 3], ReplicaSizes <- {1, 2},
  KMax <- 2, LeaseLimit <- StoreLeases
Reusing == INSTANCE ReuseRuntime WITH
  KnownSources <- {1, 2}, UnknownSource <- 3, Abstained <- 0, ProbeLayers <- {1, 2},
  LastBoundary <- 2, LoadBytes <- {1, 2}, SafeRatios <- {1, 2}, MaxEngineCalls <- 4
Joint == INSTANCE JointRepair WITH
  ReusedSegments <- {"a", "b"}, PlanLayers <- {1, 2, 3}, CertifiedGrid <- {10, 12, 15},
  GridCap <- 15, PolicyProfiles <- RepairProfiles, EmittedRatios <- {10, 15, 20},
  EmittedTemplates <- {"uniform_floor", "uniform_cap", "load_priority"}, EmittedCosts <- {1, 2}
Dispatching == INSTANCE SelectionDispatch WITH DispatchChanges <- 2
Curve == INSTANCE CoverageReplay WITH
  TraceVariants <- 1..4, Created <- CreationTimes, TraceLength <- 4, Capacity <- 2,
  ScoresAt <- ScoreTables, KBudgets <- {1, 2}, compared <- looked
Modes == INSTANCE ModelModes WITH
  ModelLayers <- 3, FixtureShapes <- ModelShapes, Boundaries <- ModelBoundaries, MaxOperations <- 3
Piloted == INSTANCE CaseRunner WITH
  CaseCount <- 2, SourceCount <- 2, Repairs <- 2, MaxProcesses <- 3

-----------------------------------------------------------------------------
Some(S) == CHOOSE x \in S : TRUE

OfflineInit ==
  /\ part \in Parts
  /\ LedgerInit /\ QualInit
  /\ part # "ledger" => runner = Some(Runners)
  /\ part # "qualification" => here = Some(Places)
  /\ IF part = "loop" THEN Init ELSE Arrival(Some(Requests), {})
  /\ IF part = "window" THEN WindowInit
     ELSE Waiting(Some(SchedulerPolicies), Some(Scenarios), Some(ReadyQueues), {})
  /\ IF part = "profile" THEN Profile!ProfileInit
     ELSE /\ checkout = 0 /\ resultRows = 0 /\ tornRow = 0 /\ initFailure = 0 /\ runtimeAudit = 0
          /\ profiling = 0 /\ measured = 0 /\ bundles = 0 /\ freezing = 0 /\ dualGate = 0
          /\ kills = 0
  /\ IF part = "analysis" THEN Analysis!AnalysisInit
     ELSE tables = 0 /\ timely = 0 /\ dispatch = 0 /\ replayed = 0
  /\ IF part = "masks" THEN MasksInit
     ELSE /\ maskPolicy = "staggered" /\ ratioOf = <<>> /\ boundaryOf = 0 /\ rounding = 0 /\ layer = 0
          /\ drift = 0 /\ support = 0 /\ executed = DenseRows /\ refused = 0
  /\ IF part = "store"
     THEN Store!StoreInit /\ (storeMode.fixed => storeMode = BothPolicies)
     ELSE storeMode = 0 /\ registered = 0 /\ recent = 0 /\ leased = 0 /\ replicas = 0
  /\ IF part = "runtime" THEN Reusing!RuntimeInit
     ELSE /\ runtimeState = 0 /\ lockedSource = 0 /\ observed = 0 /\ profiledAs = 0
          /\ outcome = 0 /\ engineRuns = 0 /\ engineCalls = 0
  /\ IF part = "joint" THEN Joint!JointInit
     ELSE /\ policyProfile = 0 /\ firstReuse = 0 /\ given = 0 /\ previous = 0
          /\ chosenRows = 0 /\ choices = 0 /\ building = 0
  /\ IF part = "dispatch" THEN Dispatching!DispatchInit
     ELSE /\ depthProfile = 0 /\ fastQualified = 0 /\ legacyQualified = 0 /\ laterGates = 0
          /\ h2 = 0 /\ dispatched = 0 /\ changes = 0
  /\ IF part = "coverage" THEN Curve!ReplayInit
     ELSE /\ created = 0 /\ bornVerified = 0 /\ epoch = 0 /\ pool = 0 /\ inserted = 0
          /\ looked = 0 /\ covered = 0
  /\ IF part = "modes" THEN Modes!ModelInit
     ELSE /\ on = 0 /\ oldRows = 0 /\ cachedPrompts = 0 /\ fixtures = 0 /\ operation = 0
          /\ todo = 0 /\ turn = 0 /\ forward = 0 /\ operations = 0
  /\ IF part = "cases" THEN Piloted!CasesInit
     ELSE /\ oldSlots = 0 /\ nativeOn = 0 /\ native = 0 /\ caseTodo = 0 /\ caseRun = 0
          /\ atDeadline = 0 /\ process = 0 /\ processes = 0 /\ caseRows = 0

profileVars == <<checkout, resultRows, tornRow, initFailure, runtimeAudit, profiling,
                 measured, bundles, freezing, dualGate, kills>>
analysisVars == <<tables, timely, dispatch, replayed>>
storedVars == <<storeMode, registered, recent, leased, replicas>>
reuseVars == <<runtimeState, lockedSource, observed, profiledAs, outcome, engineRuns, engineCalls>>
planVars == <<policyProfile, firstReuse, given, previous, chosenRows, choices, building>>
protocolVars == <<depthProfile, fastQualified, legacyQualified, laterGates, h2, dispatched, changes>>
curveVars == <<created, bornVerified, epoch, pool, inserted, looked, covered>>
modeVars == <<on, oldRows, cachedPrompts, fixtures, operation, todo, turn, forward, operations>>
pilotVars == <<oldSlots, nativeOn, native, caseTodo, caseRun, atDeadline, process, processes, caseRows>>
modelVars == <<modeVars, pilotVars>>

olderVars == <<ledgerVars, qualVars, vars, windowVars>>
profilingVars == <<profileVars, analysisVars, maskVars>>
reusingVars == <<storedVars, reuseVars, planVars, protocolVars, curveVars, modelVars>>
otherVars == <<profilingVars, reusingVars>>

Ledger(A)   == part = "ledger" /\ A /\ UNCHANGED <<part, qualVars, vars, windowVars, otherVars>>
Qual(A)     == part = "qualification" /\ A /\ UNCHANGED <<part, ledgerVars, vars, windowVars, otherVars>>
Loop(A)     == part = "loop" /\ A /\ UNCHANGED <<part, ledgerVars, qualVars, windowVars, otherVars>>
Window(A)   == part = "window" /\ A /\ UNCHANGED <<part, ledgerVars, qualVars, vars, otherVars>>
Profiled(A) == part = "profile" /\ A /\ UNCHANGED <<part, olderVars, reusingVars, analysisVars, maskVars>>
Analysed(A) == part = "analysis" /\ A /\ UNCHANGED <<part, olderVars, reusingVars, profileVars, maskVars>>
Masked(A)   == part = "masks" /\ A /\ UNCHANGED <<part, olderVars, reusingVars, profileVars, analysisVars>>
Stored(A) ==
  part = "store" /\ A /\ UNCHANGED <<part, olderVars, profilingVars, reuseVars, planVars, protocolVars, curveVars, modelVars>>
Reused(A) ==
  part = "runtime" /\ A /\ UNCHANGED <<part, olderVars, profilingVars, storedVars, planVars, protocolVars, curveVars, modelVars>>
Jointly(A) ==
  part = "joint" /\ A /\ UNCHANGED <<part, olderVars, profilingVars, storedVars, reuseVars, protocolVars, curveVars, modelVars>>
Dispatches(A) ==
  part = "dispatch" /\ A /\ UNCHANGED <<part, olderVars, profilingVars, storedVars, reuseVars, planVars, curveVars, modelVars>>
Replayed(A) ==
  part = "coverage" /\ A /\ UNCHANGED <<part, olderVars, profilingVars, storedVars, reuseVars, planVars, protocolVars, modelVars>>
Shared(A) ==
  part = "modes" /\ A /\ UNCHANGED <<part, olderVars, profilingVars, storedVars, reuseVars, planVars, protocolVars, curveVars, pilotVars>>
Cased(A) ==
  part = "cases" /\ A /\ UNCHANGED <<part, olderVars, profilingVars, storedVars, reuseVars, planVars, protocolVars, curveVars, modeVars>>

OfflineNext ==
  \/ Ledger(LedgerNext) \/ Qual(QualNext) \/ Loop(Next) \/ Window(WindowStep)
  \/ Profiled(Profile!ProfileNext) \/ Analysed(Analysis!Analyse) \/ Masked(MasksNext)
  \/ Stored(Store!StoreNext) \/ Reused(Reusing!RuntimeNext) \/ Jointly(Joint!JointNext)
  \/ Dispatches(Dispatching!DispatchNext) \/ Replayed(Curve!ReplayRequest)
  \/ Shared(Modes!ModelNext) \/ Cased(Piloted!CasesNext)

allVars == <<part, olderVars, otherVars>>

(* The fairness of each part (LedgerFairness, Spec, WindowSpec), where it  *)
(* is the part that runs.                                                  *)
OfflineSpec ==
  /\ OfflineInit /\ [][OfflineNext]_allVars
  /\ WF_allVars(Ledger(Start)) /\ WF_allVars(Ledger(SessionEnds /\ session.todo = {}))
  /\ SF_allVars(Ledger(GroupCompletes))
  /\ WF_allVars(Loop(Serve)) /\ WF_allVars(Window(WindowStep))

-----------------------------------------------------------------------------
(* One slot of old rows per layer, at every forward of the case runner     *)
(* (CaseRunner).                                                           *)
OneSlotPerLayer == part = "cases" => Piloted!SlotPerLayer

(* A gate stands for what was measured: the H1 gate (Qualification), and   *)
(* the Profile of a model with its bundle, its Gate (ProfilePipeline) and  *)
(* the dispatch that Stage B replays under it (ProfileAnalysis); the       *)
(* protocol a run ends up with never exceeds the one it was frozen with at *)
(* H2 (SelectionDispatch), and the plans the joint repair controller       *)
(* builds pass the validation of whole plans (JointRepair).  What a        *)
(* runtime executes is the one Source it loaded and profiled               *)
(* (ReuseRuntime); on the shared model every forward runs in its caller's  *)
(* mode, and every layer on its own rows (ModelModes), in the case runner  *)
(* on those it staged, and that runner leaves no job of a case it is done  *)
(* with unaccounted for (CaseRunner).                                      *)
ProgramsHold ==
  /\ UnlockedAfterAllPassed
  /\ part = "profile" =>
       Profile!TimedWithoutHashing /\ Profile!AggregatedIsComplete /\ Profile!BundleIsWhole
  /\ part = "analysis" => Analysis!ReplayPassesTheGate
  /\ part = "dispatch" => Dispatching!DispatchWithinCandidate
  /\ part = "joint" => Joint!BuiltPlansValid
  /\ part = "runtime" => Reusing!ReuseOfTheLoaded
  /\ part = "modes" =>
       Modes!ModesOfTheCaller /\ Modes!LayersReadTheirOwn /\ Modes!SourcesComplete
  /\ part = "cases" => Piloted!RepairsOwnSource /\ Piloted!OutcomesAccounted

(* A library of KV loses nothing that is in use or protected, and what it  *)
(* loses goes only where there is no room and in its order: from the store *)
(* of Sources, versions by age and replicas by last use (SourceStore);     *)
(* from the pool as a coverage curve replays it, Variants by last use but  *)
(* for those on probation, and it sees no Variant before the request after *)
(* its creation (CoverageReplay).                                          *)
LibraryKeeps ==
  [][/\ part = "store" => Store!StoreStep
     /\ part = "coverage" => Curve!ReplayStep]_allVars

(* Each part ends what it began, where it is the part that runs: every job *)
(* with a terminal row (JobLedger), every request of the closed loop       *)
(* (ClosedLoop), and every load window (LoadWindow).                       *)
EveryPartEnds ==
  /\ part = "ledger" => EveryJobResolved
  /\ part = "loop" => Served
  /\ part = "window" => WindowEnds
=============================================================================
