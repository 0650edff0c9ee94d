SPECIFICATION WindowFairSpec
CONSTANTS
    Window = 4
    MaxData = 3
    Takers = {t1, t2}
INVARIANTS
    NoLostWakeup
PROPERTIES
    TakeReturns
