SPECIFICATION FairSpec
CONSTANTS
    Window = 5
    MaxData = 5
    Total = 6
    Sizes = {1, 5}
INVARIANTS
    TypeOK
    ReadsWhole
PROPERTIES
    CopierEndsWait
CHECK_DEADLOCK FALSE
