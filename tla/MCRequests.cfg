SPECIFICATION RequestsSpec
CONSTANTS
    o1 = o1  o2 = o2  g1 = g1  g2 = g2  s1 = s1  r1 = r1
    Owners = {o1}
    Segments = {g1, g2}
    Sources = {s1}
    Replicas = {r1}
    SourceOf <- OneSourceOf
    TierOf <- OneTierOf
    SizeOf <- OneSizeOf
    NamespaceOf <- OneNamespaceOf
    TtlFloor = 1
    OrphanGrace = 1
    NoSource = NoSource  NoReplica = NoReplica  NoCap = NoCap  NoTime = NoTime
    HbmCapacity = 6
    HbmExternal = 1
    HbmSafety = 1
    PolicyOf <- CausalPolicy
    OrderOf <- FirstThenRest
    Depths = {1}
    MaxLeases = 4
    MaxEpoch = 5
    MaxPlans = 2
    MaxCompared = 0
CHECK_DEADLOCK FALSE
INVARIANTS PreparationOwned CausalCommit DenseFirst BarrierAccurate
PROPERTIES FollowsChain
