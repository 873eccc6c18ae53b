CONSTANTS
    c1 = c1
    c2 = c2
    e1 = e1
    e2 = e2
    Conn = {c1, c2}
    Event = {e1}
    MaxPending = 1
SPECIFICATION WsSpec
CHECK_DEADLOCK FALSE
INVARIANTS
    CleanedUp
