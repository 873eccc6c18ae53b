CONSTANTS
    Adapter = {"sqs", "memory", "bullmq"}
    Msg = {m1, p}
    Malformed = {p}
    Consumer = {c1, c2}
    Attempts = 1
    MaxStalledCount = 1
SPECIFICATION QueueFairSpec
INVARIANTS
    StopDrains
PROPERTIES
    ImplementsDelivery
    StopSettles
    JobsSettle
