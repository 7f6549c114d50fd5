SPECIFICATION Spec
CONSTANTS
    None = None
    q1 = q1
    q2 = q2
    sys = sys
    Procs = {p1}
    Requests <- MCTwoPrompts
    Replies = {r1, r2}
    MaxCalls = 3
    MaxCrashes = 2
    MaxFailures = 1
    AllowUncached = TRUE
INVARIANTS
    CrashAccountsForLoss
PROPERTIES
    NeverRespend
    ImplementsMemo
