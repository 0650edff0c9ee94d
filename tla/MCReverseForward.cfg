SPECIFICATION FairSpec
CONSTANTS
    Listeners = {l1, l2}
    Conns = {s1}
    MaxListeners = 1
INVARIANTS
    TypeOK
    NoOrphanSocket
    AcceptAfterCommit
    InboundAgreed
PROPERTIES
    ReserveReturns
    InboundSettles
    SocketsReleased
CHECK_DEADLOCK FALSE
