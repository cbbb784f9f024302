SPECIFICATION Spec
CONSTANTS
    Running = {"loop"}
    MinimizedFiles <- MCMinimizedFiles
    SetSteps = 2
    SetMinSize = 2
    StartSteps = 2
    Checksums = {0, 1, 2}
    NoTuples = 0
    MaxRuns = 2
    AnalyzedFiles <- MCAnalyzedFiles
    Answers <- MCAnswers
    AnalyzedCksum = 1
    MAX_AUTO_EXTRA = 5
    Threads = {1, 2}
    PAGE_SIZE = 4
    Header = 2
    HeapSizes = {0, 2, 5}
    Counts = {2, 7}
    max_mem = 8
    SizeT = 32
    MaxBlocks = 3
    Addresses = {"a1", "a2", "a3"}
    AllocSizes = {1, 2, 4}
    MAX_ALLOC = 3
    ALLOC_BLK_INC = 1
    MaxLines = 6
    Ratios = {"none", "some", "all"}
    Wrappers = {"afl-gcc", "afl-clang-fast"}
    MaxArguments = 2
    MaxAsArguments = 1
    InstRatio = 100
    StartOptions = {"i", "N", "m", "Q", "t", "t+", "S", "M", "n", "d", "C", "E"}
    Seeds = 2
    ToolOptions <- MCToolOptions
    CommandLines <- MCCommandLines
    TestCases <- MCTestCases
    MaxAnswer = 2
    TempBuf = 1
    MaxPacket = 4
    MaxPaths = 3
    MaxCycles = 2
    SYNC_INTERVAL = 2
    ManyPaths = 1
    States = {0, 1, 2}
    Tables <- MCTables
    MaxScore = 3
    MaxExecutions = 2
INVARIANT PositionKept
CHECK_DEADLOCK FALSE
