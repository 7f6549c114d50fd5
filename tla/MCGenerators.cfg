SPECIFICATION GenSpec
CONSTANTS
    Keys = {1, 2, 3, 4}
    v1 = v1
    v2 = v2
    v3 = v3
    Values = {v1, v2, v3}
    None = None
    AncestorTime = 0
    Ancestors = {}
    Streams = {}
    Sources = {"synthetic", "semantic_resolvable", "mab_extension"}
    Objective = {1, 2}
    Subjective = {3, 4}
    Pool <- MCPool
    Times = {1, 2}
    Configs <- MCConfigs
    Templates <- MCTemplates
    SemanticTimes = {1, 2}
    Rows <- MCRows
    PredicateOf <- MCPredicateOf
    Caps <- MCCaps
    Offsets = {1, 3}
INVARIANTS
    DivergesAsConfigured
    ConflictsCollide
    SignalTellsTruth
    RaisesOnlyWhenExhausted
    EditsKeepMeaning
CHECK_DEADLOCK FALSE
