SPECIFICATION FairSpec
CONSTANTS
    NProcs = 1
    NThreads = 2
    MaxSleep = 1
    MaxSpawns = 1
PROPERTIES
    StopHolds
