CONSTANTS
    c1 = c1
    c2 = c2
    Conn = {c1, c2}
    N = 2
    MaxStarts = 2
SPECIFICATION FairSpec
CHECK_DEADLOCK FALSE
INVARIANTS
    AbortMeans504
    StoppedIsDown
PROPERTIES
    DrainSparesInFlight
    StopSettles
    InvocationsAreAnswered
