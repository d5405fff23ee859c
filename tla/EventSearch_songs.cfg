CONSTANTS
    TeamSize = 3
    Items = {1, 2}
    Bands = {1, 2, 3}
    Attributes = {1, 2, 3}
    Durations = {1, 2}
    Weight <- WeightDef
    Base = 10
    Unit = 3
    None = None
    Decks <- CoveredDecks
    Rule <- RuleDef
    Whole = 10
    Micros = 2
    Never = Never
    NoPlan = NoPlan
    OtherShare = 10
    FeverWeight <- FeverWeightDef
    FeverBase = 12
    ShuffleWeight <- ShuffleWeightDef
    Requests <- CoveredRequests
SPECIFICATION SongSpec
INVARIANT FindsMostUntraded
PROPERTY ImplementsOptimum
CHECK_DEADLOCK FALSE
