SPECIFICATION GovernSpec
CONSTANTS
    MaxId = 3
    Signals = {9, 17, 18, 19}
    Dispositions = {"handler"}
    Calls <- JobCalls
    Targets <- Jobs
    WaitPids <- AnyChild
    WaitOptions <- Untraced
    Services = 3
    Once = {2}
    NeedDisplay = {3}
    Display = TRUE
    Stubborn = {}
    RestartLimit = 3
    MaxRequests = 2
    MaxOrphans = 1
INVARIANTS StoppedIffAsleepStopped PauseHearsSignals OneOfEach
PROPERTIES RequestHeard EndedCollected
CHECK_DEADLOCK FALSE
