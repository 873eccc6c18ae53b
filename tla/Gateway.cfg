SPECIFICATION Spec
CHECK_DEADLOCK FALSE
CONSTANTS
    Caps <- MCCaps
    Def <- MCDef
    StartsWith <- MCStartsWith
    Undoes <- MCUndoes
    Singular <- MCSingular
    Numerals <- MCNumerals
    MaxFiles = 1
    Outputs <- MCOutputs
    Lower <- MCLower
    LiveTokens = {"live"}
    Headers <- MCHeaders
    Credentials <- MCCredentials
    MaxCaps = 3
    ChainOps <- MCOps
    MaxSteps = 4
    Options <- MCOptions
    Args <- MCArgs
    Requests <- MCRequests
INVARIANTS
    RoutesAgree
    CallsArrive
    SameOutcome
    GuardsRunOnce
    HeadersOnEveryAnswer
