SPECIFICATION Spec
CONSTANTS
    NaN = NaN
    P <- MCParams
    BarsPerDay = 5
    Fees = 10
    Slippage = 5
    Horizon = 1
    Purge = 1
    TestSize = 1
    Folds = 2
    FeatureBars = 1
    VolumeWindow = 2
    Shapes <- MCShapes
    RuleTrees <- MCRuleTrees
    Closing = "closing"
    Nodes <- MCNodes
    Tfs = {"closing", "other"}
    MaxDepth = 2
    REQUESTED = {"gap_pct", "vwap"}
    MaxBars = 6
    MaxMissing = 1
    Step = 2
    SweepBars = 3
INVARIANTS
    IndicatorsSound
    MissingDataNeverFires
    RequestedSuffices
    PresetsSound
    TradesHonest
    TrainingHeldOut
    GapsExact
PROPERTIES
    PastIsKept
CHECK_DEADLOCK FALSE
