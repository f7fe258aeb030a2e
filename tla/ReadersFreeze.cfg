SPECIFICATION TerminalFairSpec
CONSTANTS
    Reader = {1, 2}
    GroupOf <- OneGroup
    Refuses = {}
    QueueCapacity = 2
    RingCapacity = 1
    Nobody = Nobody
PROPERTIES InterruptsReturn
