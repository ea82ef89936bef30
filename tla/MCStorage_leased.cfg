SPECIFICATION StorageSpec
CONSTANTS
    g1 = g1  g2 = g2  s1 = s1  s2 = s2  s3 = s3  s4 = s4
    r1 = r1  r2 = r2  r3 = r3  r4 = r4  r5 = r5  r6 = r6  r7 = r7
    NoSource = NoSource  NoReplica = NoReplica  NoCap = NoCap  NoTime = NoTime
    Owners <- ThreeRequests
    Segments <- TwoSegments
    Sources <- Four
    Replicas <- Copies
    SourceOf <- CopyOf
    TierOf <- CopyTier
    SizeOf <- CopySize
    NamespaceOf <- FourNamespace
    TtlFloor = 1
    OrphanGrace = 1
    HbmCapacity = 5
    HbmExternal = 0
    HbmSafety = 2
    MaxWorkspace = 1
    SegmentsOf <- RequestSegments
    MatchesOf <- Matching
    RankOfSegment <- FirstSecond
    HbmCap = 2
    MaxGrants = 4
    MaxPlaced = 1
    BackingBytes <- FourBytes
    BackingCapacity <- ThreeTwo
    BackingRank <- FourRank
    MaxClock = 3
    MaxPolicyClock = 6
    MaxLeases = 2
    MaxPlacement = 1
    va = va  vb = vb  vc = vc
    m1 = m1  m2 = m2  k1 = k1  cpu = cpu  gpu = gpu
    Models = {m1, m2}
    Contents = {k1}
    Variants = {va, vb, vc}
    ModelOf <- MCModelOf
    ContentOf <- MCContentOf
    BytesOf <- MCBytesOf
    CapacityOf <- MCCapacityOf
    Capacity = 2
    MaxVariants = 2
    MaxProtected = 1
    EnoughObservations = 1
    LookupWindow = 1
    PriorSaved = 1
    ExplorationQuota = 1
    Uses = {"lease"}
    NoVictim = NoVictim
    PoolTiers = {cpu}
    Large = {}
    Observed = {3, 4}
    MaxObservations = 2
    MaxInFlight = 1
    Parts = {"registry"}
CHECK_DEADLOCK FALSE
INVARIANT LeasedReplicaLives
