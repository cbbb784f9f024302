CONSTANTS
    StateIds = {0, 1, 2}
    MaxPaths = 3
    MaxRows = 5
    MapSize = 2
    U32Max = 7
    Sessions <- MCSessions
    MaxInitialSeeds = 2
    Selections <- RoundRobin
    WarmupCycles = 1
    FewSeeds = 2
    FewPaths = 1
SPECIFICATION FairSpec
PROPERTIES EveryStateTargeted NoSeedStarves
