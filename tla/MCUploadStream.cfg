SPECIFICATION FairSpec
CONSTANTS
    Window = 4
    MaxData = 4
    Total = 6
INVARIANTS
    NoInvalidUpdate
PROPERTIES
    StreamSpec
    WriteEnds
CHECK_DEADLOCK FALSE
