SPECIFICATION FairSpec
CONSTANTS
    MaxId = 2
    Signals = {9, 17}
    Dispositions = {}
    Calls <- GovernorCalls
    Targets <- TheChild
    WaitPids <- AnyChild
    WaitOptions <- Plainly
PROPERTIES KillIsFatal
CHECK_DEADLOCK FALSE
