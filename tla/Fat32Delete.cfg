SPECIFICATION Spec
CONSTANTS
    MaxCluster = 7
    PerCluster = 2
    MaxDirs = 3
    Names = {"a", "b"}
    Sizes = {1}
    Foreign = TRUE
    MaxCalls = 1
    MaxCrashes = 0
    MaxErrors = 0
PROPERTIES DeleteRemovesName
CHECK_DEADLOCK FALSE
