SPECIFICATION Spec
CONSTANTS
    NProcs = 2
    MaxSpawns = 2
    Depth = 3
    MsgTypes = {0, 1}
    MaxSends = 4
INVARIANTS
    NoDeadLetters
    InOrder
PROPERTIES
    NoLoss
CHECK_DEADLOCK FALSE
