CONSTANTS
    Threads = {t1, t2}
    Nobody = Nobody
    Keys = {k1, k2}
    Cost = 1
    Burst = 2
    MaxClock = 3
SPECIFICATION LimiterFairSpec
INVARIANTS
    LimiterTypeOK
    WindowBound
    OneBucketPerKey
PROPERTIES
    ImplementsWindowLimiter
    CallReturns
