SPECIFICATION Spec
CONSTANTS
    MaxId = 2
    Signals = {17, 18, 19}
    Dispositions = {"ignore"}
    Calls <- GovernorCalls
    Targets <- TheChild
    WaitPids <- AnyChild
    WaitOptions <- Plainly
INVARIANTS StoppedCanBeContinued
CHECK_DEADLOCK FALSE
