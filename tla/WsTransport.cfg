CONSTANTS
    c1 = c1
    c2 = c2
    e1 = e1
    e2 = e2
    Conn = {c1, c2}
    Event = {e1}
    MaxPending = 2
SPECIFICATION WsFairSpec
CHECK_DEADLOCK FALSE
INVARIANTS
    RepliesAreTrue
    OnlyGranted
    OrphansWereLate
PROPERTIES
    SilentAreDropped
    UnmountSettles
