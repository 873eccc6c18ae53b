CONSTANTS
    MaxAttempts = 3
    MaxSteps = 4
SPECIFICATION RollbackFairSpec
CHECK_DEADLOCK FALSE
INVARIANTS
    NewestFirst
    Compensated
PROPERTIES
    Answered
