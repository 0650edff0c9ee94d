SPECIFICATION FairSpec
CONSTANTS
    Leases = {t, u}
    Datagram = {u}
    MaxLeases = 1
    MaxSessions = 2
INVARIANTS
    LeasesSound
PROPERTIES
    LeaseRestored
CHECK_DEADLOCK FALSE
