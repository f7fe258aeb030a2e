SPECIFICATION MountsSpec
CONSTANTS
    Contents <- ThreeVolumes
    NodeSlots = 5
    MountSlots = 3
    Descriptors = 1
    LinkDepth = 2
    Reads = 3
    Paths <- SomePaths
    LinkPaths <- SomeLinks
    Points <- SomePoints
    WriteFails = TRUE
INVARIANTS UnmountCompletes
CHECK_DEADLOCK FALSE
