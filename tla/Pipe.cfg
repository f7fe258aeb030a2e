SPECIFICATION PipelineSpec
CONSTANTS
    Proc = {"p1", "p2", "p3"}
    BufferSize = 2
    IndexModulus = 4
    Byte = {0, 1, 2}
    Blocks <- SmallBlocks
    Lengths = {1, 2}
    Watched = {{"r"}}
    MaxDescriptors <- OneDuplicates
    Pid = {1, 2, 3}
    Own = 9
    Jobs = 2
    Commands = 2
INVARIANTS SleepersHaveCause OpenWhileHeld JobsAreKnown TerminalComesBack
PROPERTIES IsFifo
