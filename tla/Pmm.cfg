SPECIFICATION Spec
CONSTANTS
    Regions <- ThreeRegions
    MaxRanges = 3
    MaxBlock = 3
INVARIANTS
    EveryPageOnce
PROPERTIES
    ImplementsPool
