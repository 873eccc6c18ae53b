CONSTANTS
    c1 = c1
    c2 = c2
    c3 = c3
    Call <- MCCalls
    FailureThreshold = 2
    SuccessThreshold = 2
    TimeoutMs = 2
SPECIFICATION BreakerFairSpec
INVARIANTS
    ClosedMeansHealthy
PROPERTIES
    TripIsEarned
    CloseIsEarned
    Recovers
