SPECIFICATION Spec
CONSTANTS
    o1 = o1  o2 = o2  g1 = g1  s1 = s1  s2 = s2
    r1 = r1  r2 = r2
    Owners = {o1, o2}
    Segments = {g1}
    Sources = {s1, s2}
    Replicas = {r1, r2}
    SourceOf <- TwoSourceOf
    TierOf <- TwoTierOf
    SizeOf <- UnitSizeOf
    NamespaceOf <- TwoNamespaceOf
    TtlFloor = 1
    OrphanGrace = 1
    Remaining = {0}
    Capacities = {0, NoCap}
    NoSource = NoSource  NoReplica = NoReplica  NoCap = NoCap  NoTime = NoTime
    MaxLeases = 2
    MaxTime = 2
    MaxPlacement = 2
    MaxBatch = 2
INVARIANTS TypeOK Accounting Protection FrozenWinner
PROPERTIES ReclaimedAfterGrace ReleasedForGood
SYMMETRY OwnerSymmetry
