SPECIFICATION MCFairSpec
CONSTANTS
    Byte = {"a", "b"}
    Needle <- MCNeedle
    ChunkSize = 2
    OldLogs <- MCOldLogs
    MaxLength = 5
    Runner = {r1, r2}
    Key <- MCKey
    Size <- MCSize
    MaxEntries = 2
    MaxBytes = 6
    None = None
    c1 = c1
    c2 = c2
    Runs <- MCRuns
    Results <- MCResults
    MaxAttempts = 10
    MaxHardwareAttempts = 5
    MaxSetbacks = 1
    MaxMore = 5
    Openings <- MCOpenings
    Nothing = Nothing
    Candidates <- MCCandidates
    SettingOf <- MCSettingOf
    Baseline <- MCBaseline
    AllowedAxes = {"tp", "block"}
    WorkTime = 2
    Grounds <- MCGrounds
    MaxTried = 6
    Documents <- MCDocuments
    Entitled <- MCEntitled
    ProfileInputs <- MCProfileInputs
    Observations <- MCObservations
    Measurements <- MCMeasurements
    Comparisons <- MCComparisons
    MaxSubmissions = 3
    Volatile = {"reference_outputs", "benchmark"}
    MaxRewritten = 1
    Absent = Absent
    Invocations <- MCInvocations
    KeyOf <- MCKeyOf
    LastWeights = 2
    NoJob = NoJob
    SourceModels <- MCSourceModels
    TargetModels <- MCTargetModels
    Session = {s1, s2}
    MaxEvents = 2
    MaxFiles = 2
    NoFile = NoFile
CHECK_DEADLOCK FALSE
INVARIANTS
    SearchIsExact CacheIsSound RunIsAccountable
    DecisionsAreGrounded SomethingCanBeDone VerdictIsWarranted ComparisonsCertify
    MatchedIsPinned ScaffoldIsExact StoreIsSound
PROPERTIES EveryToolEnds FallbackOnlyUnarmed
