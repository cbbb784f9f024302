SPECIFICATION MCSpec
CONSTANTS
    main = main
    other = other
    lone = lone
    c1 = c1
    c2 = c2
    c3 = c3
    c4 = c4
    crash = crash
    Missing = Missing
    Empty = Empty
    Fuzzers <- MCFuzzers
    Deterministic <- MCDeterministic
    HardLinks <- MCHardLinks
    Unsent <- MCUnsent
    Cases <- MCCases
    Crash = crash
    InDir <- MCInDir
    Discoverable <- MCDiscoverable
    Parties <- MCParties
    Grace = 0
    MaxAge <- MCMaxAge
    MaxStarts <- MCMaxStarts
    MaxKills <- MCMaxKills
    StartCost <- MCStartCost
    Budget = 11
    Map <- MCMap
    Counts <- MCCounts
    Campaigns <- MCCampaigns
    CalCycles = 1
    CalCyclesLong = 2
    KeepUniqueHang = 1
    KeepUniqueCrash = 2
    PatientTmout = TRUE
    MaxTmouts = 2
INVARIANTS
    DiskTrue
    CasesSurvive
    ImportsSound
    VirginMapTrue
PROPERTY
    FaultsUnique
