CONSTANTS
    Kid = {k1}
    NoKid = none
    Slot = {s1, s2}
    Token = {t1}
    CacheTtl = 3
    MinRefetch = 2
    JwtTtl = 1
    MaxSize = 1
SPECIFICATION FairVerifierSpec
PROPERTIES
    OutageKeepsKeys
    RevocationBites
    AcceptedInTheEnd
    WithdrawnInTheEnd
