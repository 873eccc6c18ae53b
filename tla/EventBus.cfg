CONSTANTS
    k1 = k1
    k2 = k2
    k3 = k3
    e1 = e1
    e2 = e2
    Key <- MCKeys
    Event <- MCEvents
    Kinds = {"memory", "redis"}
    Foreign = foreign
    MaxPlaces = 4
    MaxLog = 2
SPECIFICATION RedisSpec
SYMMETRY Symmetry
CHECK_DEADLOCK FALSE
INVARIANTS
    UniformOrder
PROPERTIES
    EveryoneServedOnce
