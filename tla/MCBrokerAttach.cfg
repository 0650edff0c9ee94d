SPECIFICATION FairSpec
CONSTANTS
    Conns = {c1, c2, c3}
    MaxPending = 2
INVARIANTS
    AttachConsistent
PROPERTIES
    ShutdownDrains
    RequestAnswered
CHECK_DEADLOCK FALSE
