SPECIFICATION FairSpec
CONSTANTS
    Ids = {i1, i2}
    MaxStreams = 2
    MaxOpens = 1
INVARIANTS
    NoOrphanConn
    OpenAgreed
PROPERTIES
    DialReturns
    SocketsReleased
CHECK_DEADLOCK FALSE
