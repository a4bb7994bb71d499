SPECIFICATION Spec
CONSTANTS
    Calls <- MCCalls
    SoftBits = 5
INVARIANT DstOnItsSundays
CHECK_DEADLOCK FALSE
