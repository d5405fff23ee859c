CONSTANTS
    TeamSize = 2
    Items = {1, 2}
    Bands = {1, 2}
    Attributes = {1, 2}
    Durations = {1, 2}
    Unit = 10
    None = None
    SongWeight <- SongWeightDef
    SongBase <- SongBaseDef
    Decks <- CrowdedDecks
    SeedAbove = 6
    SeedRounds = 3
    SeedVariants = 1
    SeedLimit = 6
    RefreshAt = 4
    RefreshLimit = 20
    RankLimit = 3
    ExactLimit = 18
    Buckets = {1, 2, 3, 4, 5, 6}
    Draws <- DrawsDef
    ShuffleWeight <- ShuffleDef
    PointDecks <- CrowdedDecks
    MedleyFixed = 10
    MedleyDivisor = 20
    ScoreSpan = 100000
    Problems <- Some
    Floors <- SomeFloors
    Lanes = 2
SPECIFICATION MCSpec
INVARIANT FailsOnlyWithoutPlan
CHECK_DEADLOCK FALSE
