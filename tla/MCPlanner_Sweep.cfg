SPECIFICATION MCSpec
CONSTANTS
    Scale = 16
    HopLatency = 40
    WireCost = 1
    Specs <- MCSpecs
    Reports <- MCReports
    TpChoices = {1, 2, 4}
    CpChoices = {1, 2}
    DpChoices = {1, 2}
    BucketStep = 2
    NBuckets = 3
    PlanModels = {"dense", "hybrid", "interleaved", "contiguous", "latent"}
    ReportModels = {"dense", "hybrid", "contiguous", "latent"}
    Dcps = {FALSE}
    Degrees = {1, 2}
CHECK_DEADLOCK FALSE
INVARIANTS
    SweepNeverRaises PlanIsSound NothingIsLost OperatorsDecomposeCell SegmentsMatchOracle
