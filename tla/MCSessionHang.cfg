SPECIFICATION FirstSpec
CONSTANTS
    PerPort = 1
    Keys = {k1}
    Static = static
    Hosts = {h1, h2}
    First = h1
    MaxRestarts = 0
    MaxFaults = 1
    MaxChanges = 0
PROPERTIES
    ConnectorReplaced
CHECK_DEADLOCK FALSE
