SPECIFICATION Spec
CONSTANTS
    main = main
    other = other
    lone = lone
    c1 = c1
    c2 = c2
    c3 = c3
    c4 = c4
    crash = crash
    Missing = Missing
    Empty = Empty
    Fuzzers <- MCFuzzers
    Deterministic <- MCDeterministic
    HardLinks <- MCHardLinks
    Unsent <- MCUnsent
    Cases <- MCCases
    Crash = crash
    InDir <- MCInDir
    Discoverable <- MCDiscoverable
    Parties <- MCParties
    Grace = 0
    MaxAge <- MCMaxAge
    MaxStarts <- MCMaxStarts
    MaxKills <- MCMaxKills
    StartCost <- MCStartCost
    Budget = 11
INVARIANT CaseStillThere
CHECK_DEADLOCK FALSE
