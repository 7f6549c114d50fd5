SPECIFICATION FairSpec
CONSTANTS
    None = None
    q1 = q1
    q2 = q2
    sys = sys
    Procs = {p1, p2}
    Requests <- MCOnePrompt
    Replies = {r1, r2}
    MaxCalls = 3
    MaxCrashes = 1
    MaxFailures = 0
    AllowUncached = FALSE
INVARIANT AnswersOwnQuestion
PROPERTY EveryCallEnds
