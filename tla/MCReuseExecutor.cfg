SPECIFICATION Spec
CONSTANTS
    g1 = g1  g2 = g2  v0 = v0  v1 = v1
    WinnerOf <- FirstVariant
    Segments = {g1, g2}
    Positions <- SixPositions
    PositionsOf <- ThreeTwo
    TotalLayers = 4
    Sources = {v0, v1}
    NoSource = NoSource
    RatioGrid = {33, 66, 100}
    CertifiedFloor = 33
    Reference = 66
    RatioCap = 66
    NoRatio = NoRatio
    NoTicket = NoTicket  NoPlan = NoPlan  NoBarrier = NoBarrier
    Order <- FirstThenSecond
    Drift <- ByPosition
    OfferedPlans <- SomePlans
CHECK_DEADLOCK FALSE
INVARIANTS RunsAsAdmitted InstalledWhileAdvancing AuthorizedThroughout
PROPERTIES NeverReenters RequestEnds
