CONSTANTS
    Width = 8
    HALF = 8
    WINDOW = 128
    LINES = 1
    Device <- MCDevice
    None = None
    Starts <- MCStarts
    Registers = {0, 1, 2, 31}
    VECTOR = 60
    Jumps = {8, 40}
    MaxCycles = 3
    SoftBits = 5
SPECIFICATION MCSpec
CHECK_DEADLOCK FALSE
INVARIANT StateRight
INVARIANT LibrariesRight
INVARIANT BootRight
PROPERTY FlowSpec
