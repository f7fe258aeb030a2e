SPECIFICATION TurnsSpec
CONSTANTS
    LastCpu = 1
    User = {"u1", "u2"}
    Kernel = {"k1", "k2"}
    Channel = {"a"}
    Reader = {1, 2}
    GroupOf <- OwnGroups
    Refuses = {2}
    QueueCapacity = 2
    RingCapacity = 1
    Nobody = Nobody
INVARIANTS QueuedOnce RunsOnce NeverReleased NeverLost UserStaysHome
PROPERTIES NoStarvation OneReaderProgresses
