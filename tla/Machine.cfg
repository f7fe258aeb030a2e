SPECIFICATION MachineSpec
CONSTANTS
    Space = {1, 2}
    First = 1
    Kernel = 0
    Frames = 5
    ImagePages = {1}
    ReadOnly = {1}
    StackPages = {2}
    BreakPages = {3}
    Word = {0, 1}
    Scrap = Scrap
    Program = {"p", "q"}
    Slots = 2
    EventCapacity = 1
    Notices = 1
    NoProgram = NoProgram
    Cpu = {"p1", "p2", "p3"}
    Tickets = 4
    NoOwner = NoOwner
    Nesting = 1
    Applications = 3
    AreaLimit = 3
    Mapping = {"page"}
INVARIANTS Isolated CountsExact ApprovedStaysOwn
           KeysGoToTop PointerBound SleepersHaveNothing
           LockExcludes AreasApart TranslationsGone
