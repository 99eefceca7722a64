SPECIFICATION Spec
CONSTANTS
    NProcs = 2
    MaxSpawns = 1
    NFds = 3
    NPipes = 1
    PipeSize = 2
    Workloads <- MCWorkloads
    Objects = {o1}
    MaxPipes = 2
INVARIANTS
    PipeEndsMatch
    NoStaleBytes
    RefsMatch
    ObjectsMatch
PROPERTIES
    StableDescriptors
CHECK_DEADLOCK FALSE
