SPECIFICATION MCSpec
CHECK_DEADLOCK FALSE
CONSTANTS
    FRAME_COUNT = 4
    FRAME_COUNT_SEND = 3
    FRAME_COUNT_RCV = 2
    CacheSize = 1
    SOCKET_TIMEOUT = 1
    LeaseSeconds = 3
    Sites <- AllSites
    MaxFaults = 1
    MaxLate = 1
    MaxQueries = 1
    MaxStrangers = 1
    BLOCK = 2
    Transfers <- AllTransfers
    TFTP_BLOCK = 2
    Downloads <- AllDownloads
    MaxDownloads = 2
    COMMAND_BUFFER_SIZE = 12
    COMMAND_BUFFER_COUNT = 3
    HISTORY_SIZE = 14
    TelnetFuncList <- Words
    StoredFiles <- TheFiles
    Typings <- AllTypings
    HtmlPages <- AllPages
    WebFiles <- AllFiles
    Requests <- AllRequests
    MaxRequests = 2
    Sessions = {s1, s2}
    MaxTransfers = 2
INVARIANT SetupRight
INVARIANT FramesKept
INVARIANT ContentsRight
INVARIANT HistoryRight
PROPERTY LeasesCome
PROPERTY QueryEnds
PROPERTY ServicesEnd
