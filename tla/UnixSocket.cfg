SPECIFICATION Spec
CONSTANTS
    NProcs = 2
    MaxSpawns = 1
    NSocks = 3
    NFiles = 3
    NFds = 2
    RingSize = 1
    MaxQueued = 1
    MaxBacklog = 1
    MaxConns = 2
    Servers = {0}
    Workloads = {"bytes", "files"}
INVARIANTS
    Mutual
    Reachable
    FilesNameSockets
    OwnBytes
CONSTRAINT StillClaimed
CHECK_DEADLOCK FALSE
