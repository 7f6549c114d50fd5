SPECIFICATION EvalSpec
CONSTANTS
    NaN = NaN
    v1 = v1
    v2 = v2
    v3 = v3
    Similarity <- MCSimilarity
    Contradiction <- MCContradiction
    EmbeddingThreshold = 80
    ContradictionThreshold = 20
    Workloads <- MCWorkloads
    Resamples = 3
INVARIANTS
    JudgedInOrder
    ScoresAreReference
    AurocCountsPairs
    IntervalSound
CHECK_DEADLOCK FALSE
