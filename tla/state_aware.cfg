CONSTANTS
    StateIds = {0, 1, 2}
    MaxPaths = 3
    MaxRows = 5
    MapSize = 2
    U32Max = 7
    Sessions <- MCSessions
    MaxInitialSeeds = 2
    Selections <- MixedSelections
    WarmupCycles = 1
    FewSeeds = 1
    FewPaths = 1
SPECIFICATION Spec
INVARIANTS TypeOK TracesHeld IndicesFit TurnsRecorded FavoredCover StatesSound TurnIsMeaningful
PROPERTY MapMonotone
