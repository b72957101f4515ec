SPECIFICATION MCSpec
CONSTANTS
    Scale = 16
    HopLatency = 40
    WireCost = 1
    Specs <- MCSpecs
    Reports <- MCReports
    TpChoices = {1, 2, 4}
    CpChoices = {1, 2}
    DpChoices = {1, 2}
    BucketStep = 2
    NBuckets = 3
    PlanModels = {"dense"}
    ReportModels = {"interleaved"}
    Dcps = {FALSE}
    Degrees = {2}
CHECK_DEADLOCK FALSE
INVARIANTS SegmentsMatchOracle
