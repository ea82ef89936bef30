SPECIFICATION OfflineSpec
CONSTANTS
  j1 = j1  j2 = j2  j3 = j3  j4 = j4
  Groups <- MCGroups
  Runners = {"pilot", "h1"}
  MaxFailures = 2
  MaxCrashes = 2
  Commits = {c1, c2}
  Gpus = {g1, g2}
  JobCount = 2
  MaxMoves = 2
  Parts = {"cases"}
  FullCost = 4
  Gamma = 60
  RatioTolerance = 0
  NSegments = 2
  NSources = 2
  Checkpoints <- TwoCheckpoints
  MaxLayers = {2}
  TotalLayers = 3
  Executions = {"legacy_common_after_selection", "causal_commit_wait", "immediate_staggered_closed_loop"}
  ProbePolicies <- AllPolicies
  CandidateMenu <- SmallMenu
  Budgets = {2}
  BoundsMenu <- SmallBounds
  Totals = {2, 3}
  SchedulerPolicies = {"no_overlap", "a_only", "b_only", "hybrid", "hybrid_strict", "hybrid_bounded_overrun"}
  Winners <- TwoWinners
  HbmAvailable = 3
  Scenarios <- Timings
  ReadyQueues <- Queues
  ALayer = 1
  HybridBudget = 1
  PrefixRows = {1}
  DenseRows = {8}
  RowsOf <- SegmentRows
  LastLayer = 3
  DriftScores <- Drifts
  RatioChoices = {25, 50, 75}
  Floor = 25
  InitialCap = 50
  LayerCosts <- CostsOfLayer
CHECK_DEADLOCK FALSE
INVARIANT OneSlotPerLayer
