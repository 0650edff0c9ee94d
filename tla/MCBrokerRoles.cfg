SPECIFICATION RolesSpec
CONSTANTS
    Frontends = {f1, f2}
    Workers = {w1, w2}
    Hosts = {h1, h2}
    Owners = {o1, o2}
    NoHandle = none
    MaxFaults = 2
    MaxUpsets = 1
INVARIANTS
    RolesTypeOK
    OwnerKept
PROPERTIES
    Recovers
CHECK_DEADLOCK FALSE
