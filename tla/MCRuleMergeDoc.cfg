SPECIFICATION MergeSpec
CONSTANTS
    Keys = {1, 2}
    v1 = v1
    v2 = v2
    Values = {v1, v2}
    None = None
    Scenarios <- MCScenarios
INVARIANT DiscardsFewerUpdates
CHECK_DEADLOCK FALSE
