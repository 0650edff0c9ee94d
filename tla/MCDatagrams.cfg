SPECIFICATION Spec
CONSTANTS
    Assocs = {a1}
    Maps = {m1}
    MaxOpened = 1
    MaxData = 2
    MaxFlows = 2
    Depth = 1
INVARIANTS
    TypeOK
    SocketsOwned
    FlowsOwned
PROPERTIES
    OpenReturns
    CloseReleases
CHECK_DEADLOCK FALSE
