SPECIFICATION StoredSpec
CONSTANTS
    Keys = {1, 2}
    v1 = v1
    Values = {v1}
    None = None
    Inputs <- MCInputs
    AncestorPairs <- MCAncestor
    NewFacts <- MCNewFacts
    MaxMade = 4
    MaxSaves = 3
    MaxCrashes = 2
INVARIANTS
    ReturnsCurrent
    SaveRepairs
    CurrentSurvives
PROPERTIES
    NothingStoredIsLost
CHECK_DEADLOCK FALSE
