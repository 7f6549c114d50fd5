SPECIFICATION BenchSpec
CONSTANTS
    Keys = {1, 2}
    v1 = v1
    v2 = v2
    Values = {v1, v2}
    None = None
    AncestorTime = 0
    Ancestors <- MCAncestors
    Streams <- MCStreams
    Scenarios = {}
INVARIANTS
    LineageSound
    LatestUpdateWins
    CollisionsExplained
    OneSurvivorPerKey
    NothingSilentlyLost
    DiscardIsAtomic
    OneQuestionPerKey
    OrthogonalMeasuresLoss
    AmbiguousNeedsFlag
    MetricsAgree
CHECK_DEADLOCK FALSE
