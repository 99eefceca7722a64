SPECIFICATION Spec
CONSTANTS
    NProcs = 2
    NServices = 4
    Dependency <- Tree
    Userspace <- Programs
    Limit <- OneRestart
    Timeout <- ShortTimeouts
PROPERTIES
    KillsOwnProgram
