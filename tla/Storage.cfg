SPECIFICATION StorageSpec
CONSTANTS
    Client = {"c1", "c2"}
    Block <- ThreeBlocks
    Value = {1, 2}
    Capacity = 2
    Nothing = Nothing
    Inodes = 3
    DiskBlocks = 4
    Name = {"a", "b"}
    DirSlots = 1
    PerTable = 1
    PerSector = 2
    Descriptor = {1}
    PersistAdopts = FALSE
    Pages = 5
    ListCapacity = 2
    ArenaFrames = 3
    ObjectsOf <- TwoClasses
    PageCounts = {1, 2}
INVARIANTS BuffersSound EachListedOnce ArenaSound
           MountedIsSound CleanMeansSound ClosedIsDurable
PROPERTIES IsStore
