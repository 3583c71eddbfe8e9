CONSTANTS
    StageCount = 4
    Seconds = {0, 1, 2}
    ReplayCounts = {0, 1}
    Capacity = 3
    MaxGeneration = 2
    Pool = pool
    Foreign = foreign
    Branches = {1}
    Epochs = {1}
    Profile <- MCProfile
    MaxDelay = 2
    Guard = 1
    MaxUnits = 4
    MaxTime = 20
    Arrivals <- MCArrivals
    Hypotheses = {h1, h2, h3}
    MinimumBlocks = 4
    MaximumBlocks = 8
    LookEvery = 2
    Bound = 6
    Worthwhile = 2
    TargetHalfWidth = 1
    Effects = {0, 1, 2, 3}
    Means = {0, 1, 2, 3, 4}
    Radii = {0, 1, 2, 4}
    RunsPerBlock = 4
    ReplayCap = 32
    Studies = {"oracle", "mechanism", "completion"}
    DataFiles <- MCFiles
    Modes = {"ci", "full"}
    MaxEdits = 2
    Versions = {0, 1}
    MaxDisturbances = 2
    MaxCommits = 2
    RawTraces <- MCRawTraces
    Second = 2
    WindowSizes = {2, 3}
    Vocabulary = 3
    Pairs <- MCPairs
    Prompts <- MCPrompts
    MaxNewTokens = 3
    SpeculationLength = 2
    DrawRange = 4
    Unit = 40
    Scenarios <- MCScenarios
    MaxWaits = {0, 20, 40}
    Guards = {0, 10}
SPECIFICATION AllSpec
INVARIANTS
    SpendAuthorized
    PagesSound
    DecisionsKept
    VerdictsTrue
    BundlesWhole
    HandoffBound
    OraclesExact
CHECK_DEADLOCK FALSE
