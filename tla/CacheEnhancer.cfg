CONSTANTS
    a = a
    b = b
    i1 = i1
    i2 = i2
    i3 = i3
    s1 = s1
    s2 = s2
    Backends = {"memory", "redis"}
    Cap = {a}
    Input <- MCInputs
    Slot <- MCSlots
    Ttl = 3
    MaxSize = 2
SPECIFICATION CacheSpec
SYMMETRY Symmetry
INVARIANTS
    ServedFresh
    LruOrder
