SPECIFICATION Spec
CONSTANTS
    Writers = {w1, w2}
    Gens = 2
    MaxFrames = 2
    PipeCap = 2
SYMMETRY Symmetry
INVARIANTS
    TypeOK
    FramesIntact
    ReplacementUnblocks
PROPERTIES
    StaleCannotDetach
CHECK_DEADLOCK FALSE
