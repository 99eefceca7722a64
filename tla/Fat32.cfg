SPECIFICATION Spec
CONSTANTS
    MaxCluster = 7
    PerCluster = 2
    MaxDirs = 3
    Names = {a, b}
    Sizes = {1, 2}
    Foreign = FALSE
    MaxCalls = 3
    MaxCrashes = 2
    MaxErrors = 1
SYMMETRY Renamings
CONSTRAINTS Untorn TwoFaults
INVARIANTS ChainsSound RepairComplete CleanMeansWhole
PROPERTIES CallsAtomic
CHECK_DEADLOCK FALSE
