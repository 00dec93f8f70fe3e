CONSTANTS
    MaxClust = 6
    PerFat = 4
    PerSector = 3
    RootSectors = 1
    Volumes <- Cards
    MaxCalls = 4
    Names = {"a", "b"}
    Paths <- ShortPaths
SPECIFICATION Spec
INVARIANT StartClusterValid
CHECK_DEADLOCK FALSE
