SPECIFICATION Spec
CHECK_DEADLOCK FALSE
CONSTANTS
    FRAME_COUNT = 7
    FRAME_COUNT_SYNC = 4
    FRAME_COUNT_SEND = 3
    FRAME_COUNT_RCV = 2
    MaxRetry = 2
    FastRetry = 1
    SOCKET_TIMEOUT = 2
    IdleFactor = 1
    EARLY_MAX = 8
    SEND_FULL = 2
    RECEIVE_WINDOW = 2
    WindowSlack = 2
    SEQ = 64
    SeqOffset = 57
    ClientSeq = 20
    PeerWindow = 2
    Workloads <- AllWorkloads
INVARIANT FramesAccounted
INVARIANT StreamsInOrder
INVARIANT AcksAreTrue
PROPERTY SocketsEnd
