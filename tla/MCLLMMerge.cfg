SPECIFICATION Spec
CONSTANTS
    Keys = {1, 2, 3}
    v1 = v1
    v2 = v2
    v3 = v3
    Values = {v1, v2, v3}
    None = None
    Scenarios <- MCScenarios
    Replies <- MCReplies
INVARIANTS
    OneAnswerPerKey
    NoGuessing
    KeptIsVerbatim
    PromptSurvivesRerun
CHECK_DEADLOCK FALSE
