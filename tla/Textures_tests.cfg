CONSTANTS
    Side = 4
    ImplicitCubeSide = 4
    CubeLayers = 12
    CallCount = 24
    FormatTable <- MCFormatInfo
    SpiralPlane <- MCSpiralPlane
    SpiralCube <- MCSpiralCube
    SpiralWide <- MCSpiralWide
    WeightSteps = 4
    WeightDen = 8
    LinearWeights <- MCLinearWeights
    NearestWeights <- MCNearestWeights
    NearestThreshold = 10
    SamplingCases <- MCSamplingCases
    GatherCases <- MCGatherCases
SPECIFICATION Suite
INVARIANTS
    ConformingSamplersPass
    ConformingGathersPass
    NoTestIsMalformed
    ConformingQueriesPass
    ConformingLoadsPass
    ConformingStoresPass
CHECK_DEADLOCK FALSE
