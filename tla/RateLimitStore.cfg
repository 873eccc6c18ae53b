CONSTANTS
    k1 = k1
    k2 = k2
    k3 = k3
    k4 = k4
    Stores = {"memory", "redis"}
    Key <- MCKeys
    Limit = 2
    WindowOf <- SameWindow
    MaxKeys = 2
    MaxCounters = 1
SPECIFICATION LimiterSpec
SYMMETRY Symmetry
INVARIANTS
    WithinLimit
    RetryIsExact
PROPERTIES
    SweepSparesActive
