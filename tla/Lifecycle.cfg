SPECIFICATION LifecycleSpec
CONSTANTS
    MaxId = 4
    Signals = {17}
    Dispositions = {"default", "handler"}
    Calls <- FamilyCalls
    Targets = {}
    WaitPids <- AnyOrOne
    WaitOptions <- Plainly
    Contents <- ThreeVolumes
    NodeSlots = 5
    MountSlots = 3
    Descriptors = 1
    LinkDepth = 2
    Reads = 3
    Paths <- SomePaths
    LinkPaths <- SomeLinks
    Points <- SomePoints
    WriteFails = FALSE
INVARIANTS NoLostChild WaiterHasChild EndedHaveCollector
           NodesCounted TreeHangsTogether UpUndoesDown
CHECK_DEADLOCK FALSE
