SPECIFICATION MCSpec
CONSTANTS
    MaxNodes = 13
    MaxSeedLength = 3
    MaxMutant = 3
    MaxRegionCount = 1
    MaxExecutions = 2
    MAX_FILE = 6
    HAVOC_BLK_SMALL = 1
    HAVOC_BLK_MEDIUM = 2
    HAVOC_BLK_LARGE = 3
    HAVOC_BLK_XL = 3
    HAVOC_CYCLES = 1
    HAVOC_CYCLES_INIT = 3
    HAVOC_MIN = 1
    HAVOC_MAX_MULT = 1
    SPLICE_HAVOC = 2
    SPLICE_CYCLES = 2
    Stacks <- MCStacks
    havoc_div = 1
    use_splicing = TRUE
    region_level_mutation = TRUE
    Lengths <- MCLengths
    TokenLengths <- MCTokenLengths
    RegionLengths <- MCRegionLengths
    ExecTimes <- MCExecTimes
    BitmapSizes <- MCBitmapSizes
    Handicaps <- MCHandicaps
    Depths <- MCDepths
    avg_exec_us = 10
    avg_bitmap_size = 10
INVARIANTS
    SpliceSound
    RecordsTrue
    HavocSound
PROPERTIES
    ImplementsTestCase
    FuzzOneEnds
