SPECIFICATION SupervisorFairSpec
CONSTANTS
    Services = 1
    Once = {}
    NeedDisplay = {}
    Display = TRUE
    Stubborn = {1}
    RestartLimit = 3
    MaxRequests = 1
    MaxOrphans = 0
PROPERTIES StopEnds
CHECK_DEADLOCK FALSE
