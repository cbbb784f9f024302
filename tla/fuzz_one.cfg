SPECIFICATION MCSpec
CONSTANTS
    Modes <- SupportedModes
    MaxRuns = 3
    Bits = 5
    MIN_AUTO_EXTRA = 2
    MAX_AUTO_EXTRA = 3
    USE_AUTO_EXTRAS = 2
    MAX_AUTO_EXTRAS = 4
    MAX_DICT_FILE = 3
    interesting_8 <- MCInteresting8
    interesting_16 <- MCInteresting16
    interesting_32 <- MCInteresting32
    tolower <- MCtolower
    ARITH_MAX = 4
    EFF_BLOCK = 1
    EFF_MIN_LEN = 4
    EFF_MAX_PERC = 70
    MAX_FILE = 6
    MAX_DET_EXTRAS = 1
    no_arith = FALSE
    dumb_mode = FALSE
    Messages <- MCMessages
    Dictionaries <- MCDictionaries
    Tokens <- MCTokens
    Paths = {"a", "b"}
INVARIANTS
    VerdictIsCause
    ProcessesAgree
    StagesSound
PROPERTIES
    NothingHangs
    TokensKept
