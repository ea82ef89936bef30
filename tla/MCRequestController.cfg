SPECIFICATION PartsSpec
CONSTANTS
    Parts = {"requests", "commit", "selector", "budget", "planner", "global"}
    o1 = o1  o2 = o2  g1 = g1  s1 = s1  r1 = r1
    pa = pa  pb = pb  pc = pc  pd = pd  ma = ma  mb = mb  dram = dram  ssd = ssd
    Owners = {o1, o2}
    Segments = {g1}
    Sources = {s1}
    Replicas = {r1}
    SourceOf <- OneSourceOf
    TierOf <- OneTierOf
    SizeOf <- OneSizeOf
    NamespaceOf <- OneNamespaceOf
    TtlFloor = 1
    OrphanGrace = 1
    NoSource = NoSource  NoReplica = NoReplica  NoCap = NoCap  NoTime = NoTime
    HbmCapacity = 7
    HbmExternal = 1
    HbmSafety = 2
    PolicyOf <- StaggeredPolicy
    OrderOf <- FirstThenRest
    Depths = {1}
    MaxLeases = 4
    MaxEpoch = 5
    MaxPlans = 2
    MaxCompared = 1
    SegmentCount = 3
    DecisionDepths = {1, 2}
    SourceIds = {1, 2, 3}
    Residuals = {100, 115, 200}
    CostsMs = {1, 2, 3}
    EconomicMs = 2
    Eta = 10
    EtaStrong = 40
    BandTolerance = 20
    Threshold <- TwoThresholds
    ProbeDepths = {1, 2}
    NoChoice = 0
    Batches = {1, 2, 3}
    UpperMs = {1, 2}
    OverrunMs = 1
    SunkMs = {0, 1, 5}
    FractionMs = 4
    Planners = {"v7", "predicted", "refined", "gate2", "gate3"}
    SegmentOptions <- Segment3
    Excesses <- Excess
    HbmLimits = {2, 3}
    OptionCount = 3
    PoolKeys = {pa, pb, pc, pd}
    KeyModel <- ModelOfKey
    KeyContent <- ContentOfKey
    KeyHome <- HomeOfKey
    KeyBytes <- UnitBytes
    Locations = {dram, ssd}
    TierCap <- DramSsd
    CanonicalCap = 3
    VariantCap = 2
    MinVariants = 1
    SoftQuota <- OneForMa
    ProbationLookups = 1
    ReplicaSizes = {1}
    ActivityKinds = {"lease_count"}
    MaxActivity = 2
CHECK_DEADLOCK FALSE
INVARIANTS TwoRequestsHold ChoiceJustified DecisionsAgree BudgetBound
INVARIANTS PlansExact GlobalPoolHolds
PROPERTIES CommitCausalAndFinal OnlyIdleIsLost
