CONSTANT
    MaxGuards = 2
SPECIFICATION EngineSpec
CHECK_DEADLOCK FALSE
INVARIANTS
    PipelineOrder
    ProductionHidesErrors
PROPERTIES
    ImplementsInvocation
