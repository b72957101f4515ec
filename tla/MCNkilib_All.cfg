CONSTANTS
    Lower = 0
    Upper = 12
    Requests <- MCRequests
    LoopRequest <- MCLoopRequest
    Aligns = {}
    Alignments = {8}
    MaxSections = 3
    MaxScopes = 2
    Bases <- MCBases
    ViewBases = "several"
    Sizes = {1, 2, 3}
    SplitSizes = {2}
    DtypeBytes = {1, 2, 4}
    MaxOps = 2
    MaxDims = 4
    Uses = {}
    Extents = {1, 2, 3, 4, 5, 6, 7}
    TileBytes = {2, 3}
    FreeTiles = {1, 2, 3}
    AlignTos = {1, 4}
    MaxAllocs = 2
    H0 = 2
    Norms <- MCNorms
    Quantizations <- MCQuantizations
    Partitions = 4
    QWidth = 4
    MinTile = 4
    MaxTile = 8
    ShardingThreshold = 2
    FullTile = 2
    ContiguousBelow = 4
    PsumMax = 6
    PsumAlign = 2
    Matrices <- MCMatrices
    Tokens = 4
    Chunks = {2, 4}
    Columns = 6
    Starts = {0, 2}
    Quadrants = 1
    Flattens <- MCFlattens
    PMax = 2
    Parts = {"sbuf", "view", "tiling", "find", "flatten", "norm", "quantize"}
SPECIFICATION MCSpec
CHECK_DEADLOCK FALSE
INVARIANTS
    LiveTensorsDisjoint BuffersKeepApart ViewIsWhatItMeans TilesCoverOnce
    KernelsNormalise IndicesMatchReference
