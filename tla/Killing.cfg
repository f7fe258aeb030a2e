SPECIFICATION FairSpec
CONSTANTS
    MaxId = 3
    Signals = {2, 9, 14, 17, 19}
    Dispositions = {"handler"}
    Calls <- SleeperCalls
    Targets <- TheLast
    WaitPids <- AnyChild
    WaitOptions <- HangOrNot
PROPERTIES KillReaches
CHECK_DEADLOCK FALSE
