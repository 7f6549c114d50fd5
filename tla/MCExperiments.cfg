SPECIFICATION Spec
CONSTANTS
    None = None
    Torn = Torn
    Poison = Poison
    MaxStarts = 3
    MaxFaults = 1
INVARIANTS
    Recomputable
    RepeatsAreFresh
    ReplaysAreFree
    InputIsCheckedFirst
PROPERTIES
    NoResultPastABadFile
CHECK_DEADLOCK FALSE
