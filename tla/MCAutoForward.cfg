SPECIFICATION FirstSpec
CONSTANTS
    PerPort = 2
    Keys = {k1}
    Static = static
    Hosts = {h1, h2}
    First = h1
    MaxRestarts = 1
    MaxFaults = 1
    MaxChanges = 1
INVARIANTS
    WatchTypeOK
    ActiveIsLive
    ListenersOwned
PROPERTIES
    MappingsSettle
CHECK_DEADLOCK FALSE
