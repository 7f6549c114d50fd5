SPECIFICATION BackendSpec
CONSTANT MaxRequests = 4
INVARIANTS
    WastedRoundTrips
    AlwaysAdapts
PROPERTY LearnedForGood
CHECK_DEADLOCK FALSE
