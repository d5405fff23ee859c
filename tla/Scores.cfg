SPECIFICATION MCSpec
CONSTANTS
    Charts <- SomeCharts
    Cards <- Three
    Durations <- D
    Limit <- L
    Skills <- SomeSkills
    NoteShare = 97
    Settings <- SomeSettings
    AutoCharts <- SomeAutoCharts
    SkillFrames <- SomeFrames
    AutoSkills <- SomeAutoSkills
    AutoFirst = 97
    TeamSize = 5
    Bands = {1, 2}
    Attributes = {1, 2}
    None = None
    Never = Never
    NoPlan = NoPlan
    Rule <- RuleDef
    Whole = 10
    Micros = 4
    Cases <- CasesDef
    ChartDurations = {1, 2}
    Magazines = {1, 2}
    Forever = 9
    Den = 10
    UpUnit = 10
    RateStep = 1
    RateCap = 10
    OptimisticCap = 11
    Slack = 1
    MaxPower = 90
INVARIANT KindExact
INVARIANT TimelineMatchesWindows
INVARIANT SearchIsBest
INVARIANT BoundsHold
INVARIANT RangeScoresExact
INVARIANT FindsBestPlan
INVARIANT PlansAreExact
PROPERTY MachineExact
CHECK_DEADLOCK FALSE
