SPECIFICATION Spec
CONSTANTS
    NProcs = 2
    MaxSpawns = 2
    NPtys = 1
    NTtys = 1
    RingSize = 2
    LineSize = 2
    MaxTyped = 4
    MaxPtys = 2
    Modes <- CookedOrRaw
    Workloads <- BytesOrJobs
INVARIANTS
    EndsOwned
    SlotHeld
    InOrder
    NoLoss
    NoErased
CHECK_DEADLOCK FALSE
