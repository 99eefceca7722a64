SPECIFICATION FairSpec
CONSTANTS
    NProcs = 3
    NServices = 4
    Dependency <- Tree
    Userspace <- Programs
    Limit <- OneRestart
    Timeout <- MixedTimeouts
INVARIANTS
    DependenciesFirst
    OneProgram
    BoundedRestarts
PROPERTIES
    Restarts
