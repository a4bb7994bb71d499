SPECIFICATION Spec
CHECK_DEADLOCK FALSE
CONSTANTS
    BUFFER_SIZE = 2
    BASE = 4
    UartPacketSize = 2
    FRAME_COUNT = 3
    FRAME_COUNT_SEND = 2
    FRAME_COUNT_RCV = 1
    MQUEUE_SIZE = 6
    Ping = 1
    Sessions <- AllSessions
    RING = 6
    Words = 2
    Incoming = 4
    FRAMES = 2
    FRAMES_RCV = 1
    Senders = {1, 2}
    Traffic <- AllTraffic
INVARIANT FramesHeld
INVARIANT LinesRight
INVARIANT WireRight
PROPERTY PacketsLeave
PROPERTY RingDrains
