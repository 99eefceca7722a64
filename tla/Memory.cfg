SPECIFICATION Spec
CONSTANTS
    NProcs = 2
    NPages = 4
    NMemfds = 1
    MaxPages = 2
    MaxRegions = 2
    HeapSize = 1
    StackSize = 1
    VmSize = 2
    Allocators = {0}
INVARIANTS OneOwner MemfdRefs SeesObject RegionsWhole NothingStray
CHECK_DEADLOCK FALSE
VIEW UpToPages
CONSTRAINT OneView
